---- MODULE Spec2Model ----
(***************************************************************************)
(* Model of the Argo conversational platform's RAG pipeline:               *)
(*   rag/orchestrator.py  (ArgoRAGSystem)                                  *)
(*   rag/llm.py           (GeminiLLM, both copies kept in the repository)  *)
(*   data/database.py     (get_db_session)                                 *)
(*   api.py               (chat_endpoint)                                  *)
(* Python values are modelled as follows: str -> TLA+ string, dict ->      *)
(* record (key presence = DOMAIN), list -> sequence, Optional[T] -> the    *)
(* wrapper None / Some(v), a raised exception -> its str() message.        *)
(***************************************************************************)
EXTENDS Integers, Sequences, FiniteSets, TLC

VARIABLES
    v_sql,          \* validator harness: the text handed to _validate_sql_safety
    v_result,       \* validator harness: None before the call, Some(bool) after
    z_analysis,     \* visualization harness: the analysis handed to _create_visualization_spec
    z_rows,         \* visualization harness: the sql_results handed to it (None or Some(rows))
    z_result,       \* visualization harness: None before the call, Some(returned value) after
    t_args,         \* timeline harness: the arguments of get_timeline_data
    t_profiles,     \* timeline harness: what argo_service.process_profiles returns
    t_result,       \* timeline harness: None before the call, Some(returned value) after
    copy,           \* which copy of rag/llm.py the orchestrator imports
    model,          \* GeminiLLM.model is set (TRUE) or None (FALSE)
    pc,             \* position of the request inside process_query / chat_endpoint
    calls,          \* number of process_query calls that have been entered
    now,            \* datetime.now(), in ticks
    user_query,     \* process_query argument
    session_arg,    \* process_query argument session_id, as passed
    session_id,     \* process_query argument, after defaulting
    start_time,     \* process_query local
    query_analysis, \* process_query local
    context,        \* process_query local
    search_call,    \* arguments of the last embedder.semantic_search call
    response_call,  \* arguments of the last llm.generate_response call
    sql_response,   \* process_query local
    sql_results,    \* process_query local
    sql_metadata,   \* process_query local
    response_text,  \* process_query local
    viz_spec,       \* process_query local
    response,       \* value returned by process_query
    raised,         \* the exception process_query caught: str(e) and the step that raised
    nlu_trace,      \* per NLU step of this request: how the call ended
    store_used,     \* what the store did in the last _execute_sql_safely call
    search_used,    \* what embedder.semantic_search did in the last _retrieve_context call
    log_used,       \* the completion and the log store's behaviour in the last _store_conversation call
    db_log,         \* store operations of the last _execute_sql_safely call
    executed,       \* every text ever passed to db.execute
    conversation_history, \* rows of the conversation_history table
    completed,      \* per session id: process_query calls that returned the success response
    history_out,    \* value returned by the last get_conversation_history call
    http,           \* status and body sent by chat_endpoint
    current,        \* the process_query coroutine the event loop is running
    suspended       \* the frames of the coroutines waiting at an await point

vvars == <<v_sql, v_result>>
zvars == <<z_analysis, z_rows, z_result>>
tvars == <<t_args, t_profiles, t_result>>
cfgvars == <<copy, model>>
reqvars == <<user_query, session_arg, session_id, start_time>>
locals == <<query_analysis, context, search_call, response_call, sql_response, sql_results,
            sql_metadata, response_text, viz_spec>>
tracevars == <<nlu_trace, store_used, search_used, log_used>>
dbvars == <<db_log, executed>>
schedvars == <<current, suspended>>
vars == <<v_sql, v_result, z_analysis, z_rows, z_result, t_args, t_profiles, t_result, copy, model, pc, calls, now, user_query, session_arg, session_id,
          start_time, query_analysis, context, search_call, response_call, sql_response,
          sql_results, sql_metadata, response_text, viz_spec, response, raised,
          nlu_trace, store_used, search_used, log_used, db_log, executed, conversation_history, completed, history_out, http,
          current, suspended>>

(***************************************************************************)
(* Python values                                                           *)
(***************************************************************************)
None == [null |-> TRUE]
Some(v) == [null |-> FALSE, val |-> v]
IsNone(x) == x.null

Range(s) == {s[i] : i \in DOMAIN s}

(***************************************************************************)
(* str methods used by the code                                            *)
(***************************************************************************)
\* the characters str.strip() removes
Whitespace == {" ", "\n", "\t", "\r", "\f"}

CharAt(s, i) == SubSeq(s, i, i)

\* str.lower() on one ASCII character
LowerChar(c) ==
    CASE c = "A" -> "a" [] c = "B" -> "b" [] c = "C" -> "c" [] c = "D" -> "d"
      [] c = "E" -> "e" [] c = "F" -> "f" [] c = "G" -> "g" [] c = "H" -> "h"
      [] c = "I" -> "i" [] c = "J" -> "j" [] c = "K" -> "k" [] c = "L" -> "l"
      [] c = "M" -> "m" [] c = "N" -> "n" [] c = "O" -> "o" [] c = "P" -> "p"
      [] c = "Q" -> "q" [] c = "R" -> "r" [] c = "S" -> "s" [] c = "T" -> "t"
      [] c = "U" -> "u" [] c = "V" -> "v" [] c = "W" -> "w" [] c = "X" -> "x"
      [] c = "Y" -> "y" [] c = "Z" -> "z" [] OTHER -> c

RECURSIVE StrLower(_)
\* str.lower(), character by character (split in halves)
StrLower(s) ==
    IF Len(s) = 0 THEN ""
    ELSE IF Len(s) = 1 THEN LowerChar(s)
    ELSE LET h == Len(s) \div 2
         IN StrLower(SubSeq(s, 1, h)) \o StrLower(SubSeq(s, h + 1, Len(s)))

\* str.strip(): drop the whitespace before the first and after the last other character
StrStrip(s) ==
    LET keep == {i \in 1..Len(s) : CharAt(s, i) \notin Whitespace} IN
    IF keep = {} THEN ""
    ELSE SubSeq(s, CHOOSE i \in keep : \A k \in keep : i <= k,
                   CHOOSE i \in keep : \A k \in keep : i >= k)

\* str.startswith(p)
StartsWith(s, p) == Len(s) >= Len(p) /\ SubSeq(s, 1, Len(p)) = p

\* the Python test `k in s` on two strings
StrContains(s, k) ==
    \E i \in 1..(Len(s) - Len(k) + 1) : SubSeq(s, i, i + Len(k) - 1) = k

(***************************************************************************)
(* ArgoRAGSystem._validate_sql_safety                                      *)
(***************************************************************************)
forbidden_keywords ==
    <<"delete", "update", "insert", "drop", "create", "alter",
      "truncate", "exec", "execute", "grant", "revoke">>

\* a validator that forgets to lower-case the text (faulty variant)
validate_case_sensitive(sql_query) ==
    LET sql_lower == StrStrip(sql_query) IN
    IF ~StartsWith(sql_lower, "select") THEN FALSE
    ELSE IF \E i \in DOMAIN forbidden_keywords :
                StrContains(sql_lower, forbidden_keywords[i]) THEN FALSE
    ELSE IF ~StrContains(sql_lower, "limit") /\ ~StrContains(sql_lower, "top")
         THEN FALSE
    ELSE TRUE

_validate_sql_safety(sql_query) ==
    LET sql_lower == StrStrip(StrLower(sql_query)) IN
    IF ~StartsWith(sql_lower, "select") THEN FALSE
    ELSE IF \E i \in DOMAIN forbidden_keywords :
                StrContains(sql_lower, forbidden_keywords[i]) THEN FALSE
    ELSE IF ~StrContains(sql_lower, "limit") /\ ~StrContains(sql_lower, "top")
         THEN FALSE
    ELSE TRUE

(***************************************************************************)
(* dict helpers                                                            *)
(***************************************************************************)
\* d[k] = v on a dict
DictSet(d, k, v) == [x \in DOMAIN d \cup {k} |-> IF x = k THEN v ELSE d[x]]

\* JSON / SQL scalars: a string, a number, or null
JStr(s) == [str |-> s]
JNum(n) == [num |-> n]
JNull == [nul |-> TRUE]
IsStr(j) == "str" \in DOMAIN j
IsNum(j) == "num" \in DOMAIN j
IsDict(j) == "nul" \notin DOMAIN j

\* json.dumps(d)
JsonDumps(d) == [json |-> d]

\* isinstance(v, str), for a value that is a str or one of the JSON scalars above
IsText(v) == SubSeq(ToString(v), 1, 1) = "\""

\* str(v) (also f"{v}") of a str, a number or None
PyStr(v) == IF IsText(v) THEN v ELSE IF IsNum(v) THEN ToString(v.num) ELSE "None"

\* bool(v) of a str, a number or None
PyBool(v) == IF IsText(v) THEN v # "" ELSE IsNum(v) /\ v.num # 0

\* datetime.isoformat()
isoformat(t) == "2025-09-03T00:00:" \o ToString(t)

(***************************************************************************)
(* Text returned by the Gemini model.  A completion is a sequence of       *)
(* tokens: prose ("txt"), the braces "{" and "}", and the body of a JSON   *)
(* object (one of the names below).  _generate_async either returns such a *)
(* completion or raises.                                                   *)
(***************************************************************************)
AnalysisBodies ==
    [A_data |->
        [intent |-> "data_query",
         entities |-> [geographic_region |-> "Arabian Sea",
                       parameters |-> <<"temperature">>],
         language |-> "en", complexity |-> "simple",
         requires_visualization |-> TRUE],
     A_viz |->
        [intent |-> "visualization",
         entities |-> [parameters |-> <<"salinity", "pressure", "depth">>,
                       time_period |-> "2024", data_type |-> "profiles"],
         language |-> "hi", complexity |-> "moderate",
         requires_visualization |-> TRUE],
     A_greet |->
        [intent |-> "greeting", entities |-> [geographic_region |-> ""],
         language |-> "en", requires_visualization |-> FALSE],
     A_nullent |->
        [intent |-> "data_query", entities |-> JNull, language |-> "en",
         requires_visualization |-> FALSE],
     A_table |->
        [intent |-> "data_query", entities |-> [parameters |-> <<"salinity">>],
         language |-> "en", requires_visualization |-> FALSE],
     A_export |->
        [intent |-> "export", entities |-> [data_type |-> "profiles"],
         language |-> "en", requires_visualization |-> TRUE],
     A_nullregion |->
        [intent |-> "information",
         entities |-> [geographic_region |-> JNull, parameters |-> <<"temperature">>],
         language |-> "en", requires_visualization |-> FALSE],
     A_numregion |->
        [intent |-> "data_query", entities |-> [geographic_region |-> JNum(7)],
         language |-> "en", requires_visualization |-> TRUE],
     A_empty |-> [language |-> "auto"]]

SqlBodies ==
    [S_ok |->
        [sql |-> JStr("SELECT latitude, longitude, temperature FROM argo_profiles LIMIT 50"),
         explanation |-> JStr("profiles"), estimated_rows |-> JNum(50),
         safety_checks |-> <<"read-only", "limited results">>],
     S_nolimit |->
        [sql |-> JStr("select * from argo_floats"), explanation |-> JStr("all floats")],
     S_delete |->
        [sql |-> JStr("DELETE FROM argo_profiles"), safety_checks |-> <<"none">>],
     S_comment |->
        [sql |-> JStr("  Select pressure, temperature from argo_measurements limit 5 -- drop")],
     S_null |-> [sql |-> JNull, explanation |-> JNull],
     S_num |-> [sql |-> JNum(42)],
     S_nosql |-> [explanation |-> JStr("nothing to run")]]

\* str.find / str.rfind on a completion (0-based, -1 when absent)
Find(r, tok) ==
    IF \E i \in DOMAIN r : r[i] = tok
    THEN (CHOOSE i \in DOMAIN r : r[i] = tok /\ \A j \in 1..(i - 1) : r[j] # tok) - 1
    ELSE -1
RFind(r, tok) ==
    IF \E i \in DOMAIN r : r[i] = tok
    THEN (CHOOSE i \in DOMAIN r : r[i] = tok /\ \A j \in (i + 1)..Len(r) : r[j] # tok) - 1
    ELSE -1

\* json.loads on the slice response[start:end]: Some(dict), or None when it raises
JsonLoads(json_str, bodies) ==
    IF Len(json_str) = 3 /\ json_str[1] = "{" /\ json_str[3] = "}"
       /\ json_str[2] \in DOMAIN bodies
    THEN Some(bodies[json_str[2]])
    ELSE IF json_str = <<"{", "}">> THEN Some([x \in {} |-> JNull])
    ELSE None

ExtractJson(r, bodies) ==
    LET start == Find(r, "{")
        end == RFind(r, "}") + 1
    IN IF start >= 0 /\ end > start
       THEN JsonLoads(SubSeq(r, start + 1, end), bodies)
       ELSE None

\* GeminiLLM._parse_understanding_response
_parse_understanding_response(r) ==
    LET parsed == ExtractJson(r, AnalysisBodies) IN
    IF ~IsNone(parsed) THEN parsed.val
    ELSE [intent |-> "information", entities |-> [x \in {} |-> JNull],
          language |-> "en", complexity |-> "simple",
          requires_visualization |-> FALSE]

\* GeminiLLM._parse_sql_response
_parse_sql_response(r) ==
    LET parsed == ExtractJson(r, SqlBodies) IN
    IF ~IsNone(parsed) THEN parsed.val
    ELSE [sql |-> JStr("SELECT COUNT(*) as total_profiles FROM argo_profiles WHERE qc_flag = '1'"),
          explanation |-> JStr("Count of quality-controlled Argo profiles"),
          estimated_rows |-> JNum(1),
          safety_checks |-> <<"basic count query">>]

\* GeminiLLM._mock_query_understanding
_mock_query_understanding ==
    [intent |-> "data_query",
     entities |-> [geographic_region |-> "Indian Ocean", time_period |-> "recent",
                   parameters |-> <<"temperature", "salinity">>,
                   data_type |-> "profiles"],
     language |-> "en", complexity |-> "simple",
     requires_visualization |-> TRUE,
     geographic_bounds |-> [lat_min |-> -40, lat_max |-> 30,
                            lon_min |-> -90, lon_max |-> 90]]

\* GeminiLLM._mock_sql_generation
_mock_sql_generation ==
    [sql |-> JStr("\n            SELECT \n                p.latitude, p.longitude, p.profile_date,\n                AVG(m.temperature) as avg_temp,\n                AVG(m.salinity) as avg_salinity\n            FROM argo_profiles p\n            JOIN argo_measurements m ON p.id = m.profile_id\n            WHERE p.latitude BETWEEN -40 AND 30\n            AND p.longitude BETWEEN -90 AND 90\n            AND p.qc_flag = '1'\n            AND m.temperature_qc = '1'\n            GROUP BY p.id\n            LIMIT 100\n            "),
     explanation |-> JStr("Recent temperature and salinity profiles from Indian Ocean"),
     estimated_rows |-> JNum(100),
     safety_checks |-> <<"read-only", "QC filtered", "limited results">>]

(***************************************************************************)
(* Outcome of a call that may raise                                        *)
(***************************************************************************)
Ok(v) == [ok |-> TRUE, val |-> v]
Raise(msg) == [ok |-> FALSE, err |-> msg]

\* dict.get(k, default)
Get(d, k, default) == IF k \in DOMAIN d THEN d[k] ELSE default

(***************************************************************************)
(* get_db_session: the store operations of one `with` block.  `opens` is   *)
(* FALSE when SessionLocal() raises, `body` are the operations done inside *)
(* the block, `failed` tells whether the block raised.                     *)
(***************************************************************************)
\* a context manager that closes only after a block that did not raise (faulty variant)
session_closed_on_success_only(opens, body, failed) ==
    IF ~opens THEN <<>>
    ELSE <<[op |-> "open", arg |-> ""]>> \o body
         \o (IF failed THEN <<[op |-> "rollback", arg |-> ""]>>
             ELSE <<[op |-> "close", arg |-> ""]>>)

get_db_session(opens, body, failed) ==
    IF ~opens THEN <<>>
    ELSE <<[op |-> "open", arg |-> ""]>> \o body
         \o (IF failed THEN <<[op |-> "rollback", arg |-> ""]>> ELSE <<>>)
         \o <<[op |-> "close", arg |-> ""]>>

(***************************************************************************)
(* GeminiLLM._store_conversation: the table after the call.  `store` is    *)
(* the behaviour of the log store: "ok", or the step that raises.          *)
(***************************************************************************)
_store_conversation(table, sid, q, system_response, t, store) ==
    IF store = "ok"
    THEN Append(table, [session_id |-> sid, user_query |-> q,
                        system_response |-> system_response, created_at |-> t])
    ELSE table

(***************************************************************************)
(* GeminiLLM.understand_query.  `attach` is TRUE in the copy of llm.py     *)
(* that sets analysis['original_query'].  Result: the analysis and the     *)
(* conversation table after the call.                                      *)
(***************************************************************************)
\* a copy that also logs the turn when it falls back to the mock analysis (faulty variant)
understand_query_logging_fallback(attach, has_model, q, sid, nlu, store, table, t) ==
    LET with_query(a) == IF attach THEN DictSet(a, "original_query", q) ELSE a
        analysis == IF ~has_model \/ ~nlu.ok THEN with_query(_mock_query_understanding)
                    ELSE with_query(_parse_understanding_response(nlu.val))
    IN [analysis |-> analysis,
        table |-> _store_conversation(table, sid, q, JsonDumps(analysis), t, store)]

\* a copy in which a failed append falls into the except clause of understand_query (faulty variant)
understand_query_append_uncaught(attach, has_model, q, sid, nlu, store, table, t) ==
    LET with_query(a) == IF attach THEN DictSet(a, "original_query", q) ELSE a
    IN IF ~has_model \/ ~nlu.ok \/ store # "ok"
       THEN [analysis |-> with_query(_mock_query_understanding), table |-> table]
       ELSE LET analysis == with_query(_parse_understanding_response(nlu.val))
            IN [analysis |-> analysis,
                table |-> _store_conversation(table, sid, q, JsonDumps(analysis), t, store)]

understand_query(attach, has_model, q, sid, nlu, store, table, t) ==
    LET with_query(a) == IF attach THEN DictSet(a, "original_query", q) ELSE a
    IN IF ~has_model \/ ~nlu.ok
       THEN [analysis |-> with_query(_mock_query_understanding), table |-> table]
       ELSE LET analysis == with_query(_parse_understanding_response(nlu.val))
            IN [analysis |-> analysis,
                table |-> _store_conversation(table, sid, q, JsonDumps(analysis), t, store)]

(***************************************************************************)
(* GeminiLLM.generate_sql                                                  *)
(***************************************************************************)
generate_sql(has_model, nlu) ==
    IF ~has_model \/ ~nlu.ok THEN _mock_sql_generation
    ELSE _parse_sql_response(nlu.val)

(***************************************************************************)
(* GeminiLLM._mock_response_generation, in its two copies                  *)
(***************************************************************************)
\* the string values that str(query_analysis) prints
AnalysisStrings(a) ==
    LET e == Get(a, "entities", JNull) IN
    {a[k] : k \in DOMAIN a \cap {"intent", "language", "complexity", "original_query"}}
    \cup (IF IsDict(e)
          THEN {PyStr(e[k]) : k \in DOMAIN e \cap {"geographic_region", "time_period",
                                                     "data_type"}}
               \cup (IF "parameters" \in DOMAIN e THEN Range(e.parameters) ELSE {})
          ELSE {})

\* kw in str(query_analysis).lower()
AnalysisMentions(a, kw) == \E s \in AnalysisStrings(a) : StrContains(StrLower(s), kw)

RECURSIVE Join(_, _)
\* sep.join(list)
Join(sep, list) ==
    IF Len(list) = 0 THEN ""
    ELSE IF Len(list) = 1 THEN list[1]
    ELSE list[1] \o sep \o Join(sep, Tail(list))

\* cleaned_repo copy: one fixed text
_mock_response_generation_cleaned ==
    Ok("\nBased on recent Argo float data from the Indian Ocean region, I found several oceanographic profiles. \n")

\* platform copy: text chosen from the analysis; raises when entities is not a dict
_mock_response_generation(a) ==
    LET entities == Get(a, "entities", [x \in {} |-> JNull]) IN
    IF ~IsDict(entities)
    THEN Raise("'NoneType' object has no attribute 'get'")
    ELSE
      LET parameters == Get(entities, "parameters", <<>>)
          region == PyStr(Get(entities, "geographic_region", "ocean"))
      IN IF AnalysisMentions(a, "average") /\ "temperature" \in Range(parameters)
         THEN Ok("Based on Argo float data analysis for " \o region
                 \o ", I calculated the average temperature across recent profiles. ")
         ELSE IF AnalysisMentions(a, "deepest")
         THEN Ok("I found the deepest measurement in our Argo dataset!")
         ELSE IF "salinity" \in Range(parameters) /\ AnalysisMentions(a, "recent")
         THEN Ok("I retrieved recent salinity data from Argo floats in the " \o region \o "!")
         ELSE IF AnalysisMentions(a, "compare")
         THEN Ok("I compared ocean data between different conditions as requested!")
         ELSE LET param_text == IF Len(parameters) > 0 THEN Join(", ", parameters)
                                ELSE "oceanographic parameters"
              IN Ok("I analyzed Argo float data for " \o param_text \o " in the "
                    \o region \o " region and found relevant oceanographic information.")

(***************************************************************************)
(* GeminiLLM.generate_response: Ok(text), or Raise when the mock text      *)
(* generation raises (it runs outside or inside the except handler)        *)
(***************************************************************************)
generate_response(platform, has_model, a, nlu) ==
    IF has_model /\ nlu.ok THEN Ok(StrStrip(nlu.val))
    ELSE IF platform THEN _mock_response_generation(a)
    ELSE _mock_response_generation_cleaned

(***************************************************************************)
(* ArgoRAGSystem._retrieve_context.  `search` is what                      *)
(* embedder.semantic_search does: Raise(msg) or Ok(list of results).       *)
(* Result: the context list and the arguments of the search call (None     *)
(* when the search was not reached).                                       *)
(***************************************************************************)
\* similarity scores are kept in hundredths: 0.3 is 30
SimilarityThreshold == 30
SearchLimit == 5

RECURSIVE StrReplaceSpace(_)
\* str.replace(' ', '_')
StrReplaceSpace(s) ==
    IF Len(s) = 0 THEN ""
    ELSE IF Len(s) = 1 THEN (IF s = " " THEN "_" ELSE s)
    ELSE LET h == Len(s) \div 2
         IN StrReplaceSpace(SubSeq(s, 1, h)) \o StrReplaceSpace(SubSeq(s, h + 1, Len(s)))

RECURSIVE contents_at_or_above(_)
\* a filter that keeps a result scored exactly 0.3 (faulty variant)
contents_at_or_above(results) ==
    IF Len(results) = 0 THEN <<>>
    ELSE (IF Head(results).similarity >= SimilarityThreshold
          THEN <<Head(results).content>> ELSE <<>>)
         \o contents_at_or_above(Tail(results))

RECURSIVE ContentsAbove(_)
\* [result['content'] for result in search_results if result['similarity'] > 0.3]
ContentsAbove(results) ==
    IF Len(results) = 0 THEN <<>>
    ELSE (IF Head(results).similarity > SimilarityThreshold
          THEN <<Head(results).content>> ELSE <<>>)
         \o ContentsAbove(Tail(results))

\* a retrieval that keeps the results that have no similarity score (faulty variant)
retrieve_context_keeping_unscored(a, search) ==
    LET entities == Get(a, "entities", [x \in {} |-> JNull]) IN
    IF ~IsDict(entities) THEN [context |-> <<>>, call |-> None]
    ELSE
      LET search_terms ==
              (IF "geographic_region" \in DOMAIN entities
               THEN <<entities.geographic_region>> ELSE <<>>)
              \o Get(entities, "parameters", <<>>)
              \o (IF "data_type" \in DOMAIN entities
                  THEN <<entities.data_type>> ELSE <<>>)
          search_query == IF Len(search_terms) > 0 THEN Join(" ", search_terms)
                          ELSE "oceanographic data"
          filters == IF PyBool(Get(entities, "geographic_region", ""))
                     THEN [region |-> StrReplaceSpace(StrLower(entities.geographic_region))]
                     ELSE [x \in {} |-> ""]
          call == Some([query |-> search_query, limit |-> SearchLimit,
                        filters |-> filters])
      IN IF \E i \in DOMAIN search_terms : ~IsText(search_terms[i])
         THEN [context |-> <<>>, call |-> None]
         ELSE IF ~search.ok THEN [context |-> <<>>, call |-> call]
         ELSE [context |-> [i \in DOMAIN search.val |-> search.val[i].content],
               call |-> call]

_retrieve_context(a, search) ==
    LET entities == Get(a, "entities", [x \in {} |-> JNull]) IN
    IF ~IsDict(entities) THEN [context |-> <<>>, call |-> None]
    ELSE
      LET search_terms ==
              (IF "geographic_region" \in DOMAIN entities
               THEN <<entities.geographic_region>> ELSE <<>>)
              \o Get(entities, "parameters", <<>>)
              \o (IF "data_type" \in DOMAIN entities
                  THEN <<entities.data_type>> ELSE <<>>)
          search_query == IF Len(search_terms) > 0 THEN Join(" ", search_terms)
                          ELSE "oceanographic data"
          filters == IF PyBool(Get(entities, "geographic_region", ""))
                     THEN [region |-> StrReplaceSpace(StrLower(entities.geographic_region))]
                     ELSE [x \in {} |-> ""]
          call == Some([query |-> search_query, limit |-> SearchLimit,
                        filters |-> filters])
      IN IF \E i \in DOMAIN search_terms : ~IsText(search_terms[i])
         THEN \* " ".join raises TypeError before the search is reached
              [context |-> <<>>, call |-> None]
         ELSE IF ~search.ok THEN [context |-> <<>>, call |-> call]
         ELSE IF \E i \in DOMAIN search.val : "similarity" \notin DOMAIN search.val[i]
         THEN [context |-> <<>>, call |-> call]
         ELSE [context |-> ContentsAbove(search.val), call |-> call]

(***************************************************************************)
(* ArgoRAGSystem._execute_sql_safely.  `store` is what the relational      *)
(* store does in this call: store.fail names the store operation that      *)
(* raises ("none" when all succeed), store.msg is the exception's text,    *)
(* store.columns / store.rows the result set.                              *)
(* Result: (results, metadata) and the store operations performed.         *)
(***************************************************************************)
\* d[k] = v on an insertion-ordered dict, kept as a list of (k, v) items
ODictPut(d, k, v) ==
    IF \E j \in DOMAIN d : d[j].k = k
    THEN [j \in DOMAIN d |-> IF d[j].k = k THEN [k |-> k, v |-> v] ELSE d[j]]
    ELSE Append(d, [k |-> k, v |-> v])

RECURSIVE DictZip(_, _)
\* dict(zip(columns, row))
DictZip(columns, row) ==
    IF Len(columns) = 0 \/ Len(row) = 0 THEN <<>>
    ELSE LET n == IF Len(columns) < Len(row) THEN Len(columns) ELSE Len(row)
         IN ODictPut(DictZip(SubSeq(columns, 1, n - 1), SubSeq(row, 1, n - 1)),
                     columns[n], row[n])

\* every text generate_sql can hand to the executor
GeneratedSqlTexts ==
    {b.sql.str : b \in {SqlBodies[n] : n \in {m \in DOMAIN SqlBodies :
                                               "sql" \in DOMAIN SqlBodies[m]
                                               /\ IsStr(SqlBodies[m].sql)}}}
    \cup {_mock_sql_generation.sql.str, _parse_sql_response(<<>>).sql.str, ""}

\* self._validate_sql_safety(sql_query), computed once per text
ValidatedTexts == [s \in GeneratedSqlTexts |-> _validate_sql_safety(s)]
validate_sql_safety_call(s) ==
    IF s \in DOMAIN ValidatedTexts THEN ValidatedTexts[s] ELSE _validate_sql_safety(s)

\* the AttributeError of sql_query.lower() on a value that is not a str
NotAStringError(v) ==
    IF IsNum(v) THEN "'int' object has no attribute 'lower'"
    ELSE "'NoneType' object has no attribute 'lower'"

\* line 201: return None, {'error': str(e)}   (also line 175)
ExecFailure(msg, log) ==
    [raises |-> None, results |-> None, metadata |-> [error |-> msg], log |-> log]

\* the store operations of the `with get_db_session()` block of lines 178-197
ExecSession(sql, store) ==
    get_db_session(store.fail # "session", <<[op |-> "execute", arg |-> sql]>>,
                   store.fail # "none")

\* lines 179-197: rows to dicts, metadata, return data, metadata
ExecSuccess(sql_resp, sql, store) ==
    LET data == [i \in DOMAIN store.rows |-> DictZip(store.columns, store.rows[i])]
    IN [raises |-> None,
        results |-> Some(data),
        metadata |-> [query |-> sql,
                      explanation |-> Get(sql_resp, "explanation", JNull),
                      rows_returned |-> Len(data),
                      safety_checks |-> Get(sql_resp, "safety_checks", <<>>)],
        log |-> ExecSession(sql, store)]

\* an executor that skips the safety validation (faulty variant)
execute_sql_unvalidated(sql_resp, store) ==
    LET sql_query == Get(sql_resp, "sql", JStr(""))
    IN IF ~IsStr(sql_query) THEN ExecFailure(NotAStringError(sql_query), <<>>)
       ELSE IF store.fail # "none"
       THEN ExecFailure(store.msg, ExecSession(sql_query.str, store))
       ELSE ExecSuccess(sql_resp, sql_query.str, store)

\* an executor without the except clause: store errors propagate (faulty variant)
execute_sql_uncaught(sql_resp, store) ==
    LET sql_query == Get(sql_resp, "sql", JStr(""))
    IN IF ~IsStr(sql_query) THEN ExecFailure(NotAStringError(sql_query), <<>>)
       ELSE IF ~validate_sql_safety_call(sql_query.str)
       THEN ExecFailure("Query failed safety validation", <<>>)
       ELSE IF store.fail # "none"
       THEN [raises |-> Some(store.msg), results |-> None,
             metadata |-> [error |-> store.msg],
             log |-> ExecSession(sql_query.str, store)]
       ELSE ExecSuccess(sql_resp, sql_query.str, store)

\* an executor that answers a store error with an empty row list (faulty variant)
execute_sql_empty_on_error(sql_resp, store) ==
    LET sql_query == Get(sql_resp, "sql", JStr(""))
    IN IF ~IsStr(sql_query) THEN ExecFailure(NotAStringError(sql_query), <<>>)
       ELSE IF ~validate_sql_safety_call(sql_query.str)
       THEN ExecFailure("Query failed safety validation", <<>>)
       ELSE IF store.fail # "none"
       THEN [raises |-> None, results |-> Some(<<>>),
             metadata |-> [error |-> store.msg],
             log |-> ExecSession(sql_query.str, store)]
       ELSE ExecSuccess(sql_resp, sql_query.str, store)

_execute_sql_safely(sql_resp, store) ==
    LET sql_query == Get(sql_resp, "sql", JStr(""))
    IN IF ~IsStr(sql_query) THEN ExecFailure(NotAStringError(sql_query), <<>>)
       ELSE IF ~validate_sql_safety_call(sql_query.str)
       THEN ExecFailure("Query failed safety validation", <<>>)
       ELSE IF store.fail # "none"
       THEN ExecFailure(store.msg, ExecSession(sql_query.str, store))
       ELSE ExecSuccess(sql_resp, sql_query.str, store)

(***************************************************************************)
(* ArgoRAGSystem._generate_viz_title: Ok(title), or Raise when entities    *)
(* is not a dict                                                           *)
(***************************************************************************)
_generate_viz_title(a) ==
    LET entities == Get(a, "entities", [x \in {} |-> JNull]) IN
    IF ~IsDict(entities) THEN Raise("'NoneType' object has no attribute 'get'")
    ELSE
      LET parameters == Get(entities, "parameters", <<>>)
          region == Get(entities, "geographic_region", "")
          period == Get(entities, "time_period", "")
          title_parts ==
              (IF Len(parameters) > 0
               THEN <<Join(" & ", SubSeq(parameters, 1,
                                         IF Len(parameters) < 2 THEN Len(parameters) ELSE 2))>>
               ELSE <<>>)
              \o (IF PyBool(region) THEN <<"in " \o PyStr(region)>> ELSE <<>>)
              \o (IF period # "" THEN <<"(" \o period \o ")">> ELSE <<>>)
      IN Ok(IF Len(title_parts) > 0 THEN Join(" ", title_parts)
            ELSE "Argo Data Visualization")

(***************************************************************************)
(* ArgoRAGSystem._create_visualization_spec.  A row is the ordered dict    *)
(* built by DictZip.  Result: None or Some(spec).                          *)
(***************************************************************************)
VizMaxRows == 100

\* list[:n]
Take(list, n) == SubSeq(list, 1, IF Len(list) < n THEN Len(list) ELSE n)

\* keep the items whose index is in `keep`, in order
RECURSIVE SelectIdx(_, _, _)
SelectIdx(list, keep, i) ==
    IF i > Len(list) THEN <<>>
    ELSE (IF i \in keep THEN <<list[i]>> ELSE <<>>) \o SelectIdx(list, keep, i + 1)

\* a pick of the last matching column instead of the first (faulty variant)
last_of(columns, match) ==
    IF match = {} THEN None
    ELSE Some(columns[CHOOSE i \in match : \A j \in match : i >= j])

\* next((col for col in columns if <index in match>), None)
FirstOf(columns, match) ==
    IF match = {} THEN None
    ELSE Some(columns[CHOOSE i \in match : \A j \in match : i <= j])

\* a role test that scans the names for substrings, ignoring case (faulty variant)
has_any_column_by_substring(columns, names) ==
    \E n \in names : \E i \in DOMAIN columns : StrContains(StrLower(columns[i]), n)

\* lines 257-259: any(col in columns for col in [...names...])
has_any_column(columns, names) == \E n \in names : n \in Range(columns)

\* a branch order that tests depth before coordinates (faulty variant)
viz_type_depth_first(has_coordinates, has_depth, has_temporal) ==
    IF has_depth THEN "profile"
    ELSE IF has_coordinates THEN "map"
    ELSE IF has_temporal THEN "timeseries"
    ELSE "scatter"

\* lines 262, 268-291: 'scatter' unless the if / elif / elif chain sets another type
viz_type(has_coordinates, has_depth, has_temporal) ==
    IF has_coordinates THEN "map"
    ELSE IF has_depth THEN "profile"
    ELSE IF has_temporal THEN "timeseries"
    ELSE "scatter"

\* every row goes into the spec (faulty variant)
viz_data_uncapped(rows) == rows

\* line 263: sql_results[:100]
viz_data(rows) == Take(rows, VizMaxRows)

_create_visualization_spec(a, results) ==
    IF IsNone(results) \/ Len(results.val) = 0 THEN None
    ELSE
      LET rows == results.val
          sample_row == rows[1]
          columns == [i \in DOMAIN sample_row |-> sample_row[i].k]
          idx == DOMAIN columns
          has_coordinates == has_any_column(columns, {"latitude", "longitude", "lat", "lon"})
          has_temporal == has_any_column(columns, {"date", "time", "profile_date"})
          has_depth == has_any_column(columns, {"depth", "pressure"})
          type == viz_type(has_coordinates, has_depth, has_temporal)
          low(i) == StrLower(columns[i])
          numeric == {i \in idx : IsNum(sample_row[i].v)}
          title == _generate_viz_title(a)
          base == [type |-> type, data |-> viz_data(rows), columns |-> columns]
          lat_column == FirstOf(columns, {i \in idx : StrContains(low(i), "lat")})
          lon_column == FirstOf(columns, {i \in idx : StrContains(low(i), "lon")})
          numeric_cols == SelectIdx(columns,
                              {i \in numeric : ~StrContains(low(i), "lat")
                                               /\ ~StrContains(low(i), "lon")}, 1)
          depth_column == FirstOf(columns, {i \in idx : StrContains(low(i), "depth")
                                                        \/ StrContains(low(i), "pressure")})
          param_cols == SelectIdx(columns,
                            {i \in numeric : IsNone(depth_column)
                                             \/ columns[i] # depth_column.val}, 1)
          time_column == FirstOf(columns, {i \in idx : StrContains(low(i), "date")
                                                       \/ StrContains(low(i), "time")})
          value_cols == SelectIdx(columns, numeric, 1)
          typed ==
              IF type = "map"
              THEN LET withcols == DictSet(DictSet(base, "lat_column", lat_column),
                                           "lon_column", lon_column)
                   IN IF Len(numeric_cols) > 0
                      THEN DictSet(withcols, "color_column", numeric_cols[1])
                      ELSE withcols
              ELSE IF type = "profile"
              THEN DictSet(DictSet(base, "depth_column", depth_column),
                           "parameter_columns", Take(param_cols, 3))
              ELSE IF type = "timeseries"
              THEN DictSet(DictSet(base, "time_column", time_column),
                           "value_columns", Take(value_cols, 2))
              ELSE base
      IN IF ~title.ok THEN None
         ELSE Some(DictSet(DictSet(typed, "title", title.val),
                           "data_count", Len(rows)))

(***************************************************************************)
(* ArgoRAGSystem._create_error_response                                    *)
(***************************************************************************)
\* an error response that reports the elapsed time and forgets the session (faulty variant)
error_response_without_session(error_message, sid, t) ==
    [response_text |-> "I apologize, but I encountered an error processing your query: "
                       \o error_message
                       \o ". Please try rephrasing your question or ask for help with Argo data queries.",
     error |-> error_message,
     session_id |-> "",
     timestamp |-> isoformat(t),
     processing_time_ms |-> t * 1000]

_create_error_response(error_message, sid, t) ==
    [response_text |-> "I apologize, but I encountered an error processing your query: "
                       \o error_message
                       \o ". Please try rephrasing your question or ask for help with Argo data queries.",
     error |-> error_message,
     session_id |-> sid,
     timestamp |-> isoformat(t),
     processing_time_ms |-> 0]

(***************************************************************************)
(* ArgoRAGSystem.get_conversation_history.  `reads` is FALSE when the      *)
(* store raises.                                                           *)
(***************************************************************************)
\* the indices of the session's rows, newest first, cut to `limit`
RECURSIVE NewestFirst(_, _, _)
NewestFirst(table, idxs, limit) ==
    IF idxs = {} \/ limit <= 0 THEN <<>>
    ELSE LET i == CHOOSE x \in idxs :
                     \A y \in idxs : \/ table[x].created_at > table[y].created_at
                                     \/ (table[x].created_at = table[y].created_at /\ x >= y)
         IN <<i>> \o NewestFirst(table, idxs \ {i}, limit - 1)

\* reversed(list)
Reversed(list) == [i \in DOMAIN list |-> list[Len(list) + 1 - i]]

\* a read that keeps the order of the query, newest first (faulty variant)
history_newest_first(table, sid, limit, reads) ==
    IF ~reads THEN <<>>
    ELSE LET conversations ==
                 NewestFirst(table, {i \in DOMAIN table : table[i].session_id = sid}, limit)
         IN [j \in DOMAIN conversations |->
                LET conv == table[conversations[j]] IN
                [user_query |-> conv.user_query,
                 system_response |-> conv.system_response,
                 timestamp |-> isoformat(conv.created_at)]]

get_conversation_history(table, sid, limit, reads) ==
    IF ~reads THEN <<>>
    ELSE LET conversations ==
                 NewestFirst(table, {i \in DOMAIN table : table[i].session_id = sid}, limit)
         IN [j \in DOMAIN conversations |->
                LET conv == table[Reversed(conversations)[j]] IN
                [user_query |-> conv.user_query,
                 system_response |-> conv.system_response,
                 timestamp |-> isoformat(conv.created_at)]]

(***************************************************************************)
(* api.py: chat_endpoint.  `result` is Ok(dict returned by process_query)  *)
(* or Raise(msg) when the try block raised.                                *)
(***************************************************************************)
chat_endpoint(result, request_session_id, t) ==
    IF result.ok
    THEN [status |-> 200,
          body |-> [response_text |-> Get(result.val, "response_text",
                                          "Sorry, I could not process your request."),
                    query_analysis |-> Get(result.val, "query_analysis", [x \in {} |-> JNull]),
                    data_results |-> Get(result.val, "data_results", None),
                    total_data_rows |-> Get(result.val, "total_data_rows", 0),
                    visualization |-> Get(result.val, "visualization", None),
                    processing_time_ms |-> Get(result.val, "processing_time_ms", 0),
                    session_id |-> Get(result.val, "session_id", ""),
                    timestamp |-> Get(result.val, "timestamp", isoformat(t)),
                    error |-> None]]
    ELSE [status |-> 200,
          body |-> [response_text |-> "I'm sorry, I encountered an error while processing your request. Please try again.",
                    query_analysis |-> [x \in {} |-> JNull],
                    data_results |-> None,
                    total_data_rows |-> 0,
                    visualization |-> None,
                    processing_time_ms |-> 0,
                    session_id |-> IF IsNone(request_session_id)
                                   THEN "error_" \o isoformat(t)
                                   ELSE request_session_id.val,
                    timestamp |-> isoformat(t),
                    error |-> Some(result.err)]]

(***************************************************************************)
(* ArgoRAGSystem.process_query, one action per await point                 *)
(***************************************************************************)
\* how one NLU call ended: the model is None, _generate_async raised, the
\* completion holds no parseable JSON object, or it was parsed
NluOutcome(has_model, nlu, bodies) ==
    IF ~has_model THEN "unavailable"
    ELSE IF ~nlu.ok THEN "raised"
    ELSE IF IsNone(ExtractJson(nlu.val, bodies)) THEN "malformed"
    ELSE "parsed"

\* Python truthiness of query_analysis.get('requires_visualization')
Truthy(a, k) == k \in DOMAIN a /\ a[k] = TRUE

\* lines 52-59: default the session id, take start_time, log the query
process_query_enter(queries, sessions) ==
    /\ pc = "idle"
    /\ \E q \in queries, s \in sessions :
        LET sid == IF IsNone(s) THEN "session_" \o isoformat(now + 1) ELSE s.val IN
        /\ user_query' = q
        /\ session_arg' = s
        /\ session_id' = sid
        /\ now' = now + 1
        /\ start_time' = now + 1
        /\ calls' = calls + 1
        /\ IF IsNone(q)
           THEN /\ raised' = Some([msg |-> "'NoneType' object is not subscriptable", at |-> "log"])
                /\ response' = Some(_create_error_response(
                                   "'NoneType' object is not subscriptable", sid, now + 1))
                /\ pc' = "error_returned"
           ELSE /\ pc' = "understand"
                /\ UNCHANGED <<raised, response>>
    /\ history_out' = None
    /\ UNCHANGED <<vvars, zvars, tvars, schedvars, cfgvars, locals, tracevars, dbvars, conversation_history,
                   completed, http>>

\* line 60: query_analysis = await self.llm.understand_query(user_query, session_id)
process_query_understand(completions, log_stores) ==
    /\ pc = "understand"
    /\ \E nlu \in completions, store \in log_stores :
        LET r == understand_query(copy = "platform", model, user_query.val, session_id,
                                  nlu, store, conversation_history, now)
        IN /\ query_analysis' = Some(r.analysis)
           /\ conversation_history' = r.table
           /\ nlu_trace' = DictSet(nlu_trace, "understand",
                                   NluOutcome(model, nlu, AnalysisBodies))
           /\ log_used' = IF model /\ nlu.ok
                           THEN Some([completion |-> nlu.val, store |-> store])
                           ELSE None
    /\ pc' = "context"
    /\ UNCHANGED <<vvars, zvars, tvars, schedvars, cfgvars, calls, now, reqvars, context, search_call, response_call,
                   sql_response, sql_results, sql_metadata, response_text, viz_spec,
                   response, raised, store_used, search_used, dbvars, completed, history_out, http>>

\* a step that goes on to SQL generation whatever the intent (faulty variant)
context_then_always_sql(searches) ==
    /\ pc = "context"
    /\ \E search \in searches :
        LET r == _retrieve_context(query_analysis.val, search)
        IN /\ context' = r.context
           /\ search_call' = r.call
           /\ response_call' = response_call
           /\ search_used' = Some(search)
    /\ pc' = "generate_sql"
    /\ UNCHANGED <<vvars, zvars, tvars, schedvars, cfgvars, calls, now, reqvars, query_analysis,
                   sql_response, sql_results, sql_metadata, response_text, viz_spec,
                   response, raised, nlu_trace, store_used, log_used, dbvars,
                   conversation_history, completed, history_out, http>>

\* a step that retrieves context only for the intents that need SQL (faulty variant)
context_only_for_data_intents(searches) ==
    /\ pc = "context"
    /\ IF Get(query_analysis.val, "intent", "") \in {"data_query", "visualization"}
       THEN /\ \E search \in searches :
                LET r == _retrieve_context(query_analysis.val, search)
                IN /\ context' = r.context
                   /\ search_call' = r.call
                   /\ search_used' = Some(search)
            /\ pc' = "generate_sql"
       ELSE /\ pc' = "generate_response"
            /\ UNCHANGED <<context, search_call, search_used>>
    /\ UNCHANGED <<vvars, zvars, tvars, schedvars, cfgvars, calls, now, reqvars, query_analysis,
                   response_call, sql_response, sql_results, sql_metadata, response_text,
                   viz_spec, response, raised, nlu_trace, store_used, log_used, dbvars,
                   conversation_history, completed, history_out, http>>

\* line 63: context = await self._retrieve_context(query_analysis)
process_query_context(searches) ==
    /\ pc = "context"
    /\ \E search \in searches :
        LET r == _retrieve_context(query_analysis.val, search)
        IN /\ context' = r.context
           /\ search_call' = r.call
           /\ response_call' = response_call
           /\ search_used' = Some(search)
    /\ pc' = IF Get(query_analysis.val, "intent", "") \in {"data_query", "visualization"}
             THEN "generate_sql" ELSE "generate_response"
    /\ UNCHANGED <<vvars, zvars, tvars, schedvars, cfgvars, calls, now, reqvars, query_analysis,
                   sql_response, sql_results, sql_metadata, response_text, viz_spec,
                   response, raised, nlu_trace, store_used, log_used, dbvars,
                   conversation_history, completed, history_out, http>>

\* line 70: sql_response = await self.llm.generate_sql(query_analysis)
process_query_generate_sql(completions) ==
    /\ pc = "generate_sql"
    /\ \E nlu \in completions :
        /\ sql_response' = Some(generate_sql(model, nlu))
        /\ nlu_trace' = DictSet(nlu_trace, "generate_sql",
                                NluOutcome(model, nlu, SqlBodies))
    /\ pc' = "execute_sql"
    /\ UNCHANGED <<vvars, zvars, tvars, schedvars, cfgvars, calls, now, reqvars, query_analysis, context,
                   search_call, response_call, sql_results, sql_metadata, response_text, viz_spec,
                   response, raised, store_used, search_used, log_used, dbvars, conversation_history,
                   completed, history_out, http>>

\* a step that treats a failed execution as fatal to the request (faulty variant)
execute_sql_or_abort(stores) ==
    /\ pc = "execute_sql"
    /\ \E store \in stores :
        LET r == _execute_sql_safely(sql_response.val, store)
        IN /\ store_used' = Some(store)
           /\ db_log' = r.log
           /\ executed' = executed \cup
                  {r.log[i].arg : i \in {j \in DOMAIN r.log : r.log[j].op = "execute"}}
           /\ IF "error" \notin DOMAIN r.metadata
              THEN /\ sql_results' = r.results
                   /\ sql_metadata' = Some(r.metadata)
                   /\ pc' = "generate_response"
                   /\ UNCHANGED <<response, raised>>
              ELSE /\ raised' = Some([msg |-> r.metadata.error, at |-> "execute_sql"])
                   /\ response' = Some(_create_error_response(r.metadata.error,
                                                              session_id, now))
                   /\ pc' = "error_returned"
                   /\ UNCHANGED <<sql_results, sql_metadata>>
    /\ UNCHANGED <<vvars, zvars, tvars, schedvars, cfgvars, calls, now, reqvars, query_analysis, context,
                   search_call, response_call, sql_response, response_text, viz_spec, nlu_trace, search_used, log_used,
                   conversation_history, completed, history_out, http>>

\* line 71: sql_results, sql_metadata = await self._execute_sql_safely(sql_response)
process_query_execute_sql(stores) ==
    /\ pc = "execute_sql"
    /\ \E store \in stores :
        LET r == _execute_sql_safely(sql_response.val, store)
        IN /\ store_used' = Some(store)
           /\ db_log' = r.log
           /\ executed' = executed \cup
                  {r.log[i].arg : i \in {j \in DOMAIN r.log : r.log[j].op = "execute"}}
           /\ IF IsNone(r.raises)
              THEN /\ sql_results' = r.results
                   /\ sql_metadata' = Some(r.metadata)
                   /\ pc' = "generate_response"
                   /\ UNCHANGED <<response, raised>>
              ELSE \* lines 103-105: the except clause of process_query
                   /\ raised' = Some([msg |-> r.raises.val, at |-> "execute_sql"])
                   /\ response' = Some(_create_error_response(r.raises.val, session_id, now))
                   /\ pc' = "error_returned"
                   /\ UNCHANGED <<sql_results, sql_metadata>>
    /\ UNCHANGED <<vvars, zvars, tvars, schedvars, cfgvars, calls, now, reqvars, query_analysis, context,
                   search_call, response_call, sql_response, response_text, viz_spec, nlu_trace, search_used, log_used,
                   conversation_history, completed, history_out, http>>

\* lines 74-76: response_text = await self.llm.generate_response(...)
process_query_generate_response(completions) ==
    /\ pc = "generate_response"
    /\ \E nlu \in completions :
        LET r == generate_response(copy = "platform", model, query_analysis.val, nlu)
        IN /\ nlu_trace' = DictSet(nlu_trace, "generate_response",
                                   IF ~model THEN "unavailable"
                                   ELSE IF ~nlu.ok THEN "raised" ELSE "text")
           /\ response_call' = Some([query_analysis |-> query_analysis.val,
                                      sql_results |-> sql_results,
                                      context |-> context])
           /\ IF r.ok
              THEN /\ response_text' = Some(r.val)
                   /\ pc' = "visualize"
                   /\ UNCHANGED <<response, raised>>
              ELSE \* lines 103-105: the except clause of process_query
                   /\ raised' = Some([msg |-> r.err, at |-> "generate_response"])
                   /\ response' = Some(_create_error_response(r.err, session_id, now + 1))
                   /\ pc' = "error_returned"
                   /\ UNCHANGED response_text
    /\ now' = now + 1
    /\ UNCHANGED <<vvars, zvars, tvars, schedvars, cfgvars, calls, reqvars, query_analysis, context,
                   search_call, sql_response, sql_results, sql_metadata, viz_spec,
                   store_used, search_used, log_used, dbvars, conversation_history, completed, history_out,
                   http>>

\* a step that builds the spec whatever requires_visualization says (faulty variant)
visualize_ignoring_flag ==
    /\ pc = "visualize"
    /\ viz_spec' = _create_visualization_spec(query_analysis.val, sql_results)
    /\ pc' = "compile"
    /\ UNCHANGED <<vvars, zvars, tvars, schedvars, cfgvars, calls, now, reqvars, query_analysis, context,
                   search_call, response_call, sql_response, sql_results, sql_metadata,
                   response_text, response, raised, tracevars, dbvars,
                   conversation_history, completed, history_out, http>>

\* lines 79-81: viz_spec
process_query_visualize ==
    /\ pc = "visualize"
    /\ viz_spec' = IF /\ Truthy(query_analysis.val, "requires_visualization")
                      /\ ~IsNone(sql_results)
                      /\ Len(sql_results.val) > 0
                   THEN _create_visualization_spec(query_analysis.val, sql_results)
                   ELSE None
    /\ pc' = "compile"
    /\ UNCHANGED <<vvars, zvars, tvars, schedvars, cfgvars, calls, now, reqvars, query_analysis, context,
                   search_call, response_call, sql_response, sql_results, sql_metadata,
                   response_text, response, raised, tracevars, dbvars,
                   conversation_history, completed, history_out, http>>

ResponseMaxRows == 10

\* a response whose data_results use the cap of the visualization (faulty variant)
return_with_visualization_cap ==
    /\ pc = "compile"
    /\ LET has_rows == ~IsNone(sql_results) /\ Len(sql_results.val) > 0 IN
       response' = Some(
           [response_text |-> response_text.val,
            query_analysis |-> query_analysis.val,
            context_sources |-> Len(context),
            sql_metadata |-> sql_metadata,
            data_results |-> IF has_rows
                             THEN Some(Take(sql_results.val, VizMaxRows)) ELSE None,
            total_data_rows |-> IF has_rows THEN Len(sql_results.val) ELSE 0,
            visualization |-> viz_spec,
            processing_time_ms |-> (now - start_time) * 1000,
            session_id |-> session_id,
            timestamp |-> isoformat(now)])
    /\ completed' = DictSet(completed, session_id, Get(completed, session_id, 0) + 1)
    /\ pc' = "returned"
    /\ UNCHANGED <<vvars, zvars, tvars, schedvars, cfgvars, calls, now, reqvars, locals, raised, tracevars,
                   dbvars, conversation_history, history_out, http>>

\* lines 84-101: complete_response
process_query_return ==
    /\ pc = "compile"
    /\ LET has_rows == ~IsNone(sql_results) /\ Len(sql_results.val) > 0 IN
       response' = Some(
           [response_text |-> response_text.val,
            query_analysis |-> query_analysis.val,
            context_sources |-> Len(context),
            sql_metadata |-> sql_metadata,
            data_results |-> IF has_rows
                             THEN Some(Take(sql_results.val, ResponseMaxRows)) ELSE None,
            total_data_rows |-> IF has_rows THEN Len(sql_results.val) ELSE 0,
            visualization |-> viz_spec,
            processing_time_ms |-> (now - start_time) * 1000,
            session_id |-> session_id,
            timestamp |-> isoformat(now)])
    /\ completed' = DictSet(completed, session_id, Get(completed, session_id, 0) + 1)
    /\ pc' = "returned"
    /\ UNCHANGED <<vvars, zvars, tvars, schedvars, cfgvars, calls, now, reqvars, locals, raised, tracevars,
                   dbvars, conversation_history, history_out, http>>

\* api.py lines 159-192: the endpoint turns the result into a ChatResponse
chat_endpoint_respond ==
    /\ pc \in {"returned", "error_returned"}
    /\ ~IsNone(user_query)
    /\ http' = Some(chat_endpoint(Ok(response.val), session_arg, now))
    /\ pc' = "responded"
    /\ UNCHANGED <<vvars, zvars, tvars, schedvars, cfgvars, calls, now, reqvars, locals, response, raised,
                   tracevars, dbvars, conversation_history, completed, history_out>>

\* the caller issues the next request: process_query's locals are gone
next_request ==
    /\ pc \in {"returned", "error_returned", "responded"}
    /\ pc' = "idle"
    /\ user_query' = None
    /\ session_arg' = None
    /\ session_id' = ""
    /\ start_time' = 0
    /\ query_analysis' = None
    /\ context' = <<>>
    /\ search_call' = None
    /\ response_call' = None
    /\ sql_response' = None
    /\ sql_results' = None
    /\ sql_metadata' = None
    /\ response_text' = None
    /\ viz_spec' = None
    /\ response' = None
    /\ raised' = None
    /\ nlu_trace' = [x \in {} |-> ""]
    /\ store_used' = None
    /\ search_used' = None
    /\ log_used' = None
    /\ db_log' = <<>>
    /\ http' = None
    /\ history_out' = None
    /\ UNCHANGED <<vvars, zvars, tvars, schedvars, cfgvars, calls, now, executed, conversation_history, completed>>

\* orchestrator.py lines 335-367, called between requests
get_history(sessions, limits) ==
    /\ pc = "idle"
    /\ IsNone(history_out)
    /\ \E s \in sessions, limit \in limits, reads \in BOOLEAN :
        history_out' = Some([session_id |-> s, limit |-> limit,
                             history |-> get_conversation_history(
                                             conversation_history, s, limit, reads),
                             reads |-> reads])
    /\ UNCHANGED <<vvars, zvars, tvars, schedvars, cfgvars, pc, calls, now, reqvars, locals, response, raised,
                   tracevars, dbvars, conversation_history, completed, http>>

(***************************************************************************)
(* VectorEmbedder.semantic_search: the scored candidates, sorted by        *)
(* similarity (largest first, equal scores in candidate order), cut to     *)
(* `limit`                                                                 *)
(***************************************************************************)
RECURSIVE SortBySimilarity(_)
\* results.sort(key=lambda x: x['similarity'], reverse=True)
SortBySimilarity(results) ==
    IF Len(results) = 0 THEN <<>>
    ELSE LET i == CHOOSE x \in DOMAIN results :
                    /\ \A y \in DOMAIN results : results[x].similarity >= results[y].similarity
                    /\ \A y \in 1..(x - 1) : results[y].similarity > results[x].similarity
                                             \/ results[y].similarity < results[x].similarity
         IN <<results[i]>>
            \o SortBySimilarity(SubSeq(results, 1, i - 1) \o SubSeq(results, i + 1, Len(results)))

semantic_search(candidates, limit) == Take(SortBySimilarity(candidates), limit)

(***************************************************************************)
(* Inputs                                                                  *)
(***************************************************************************)
UserQueries == {Some("any query"), Some("What is the average temperature?"), None}
SessionIds == {Some("s1"), None}

UnderstandCompletions ==
    {Raise("503 model overloaded"), Ok(<<>>), Ok(<<"txt">>),
     Ok(<<"txt", "{", "A_data", "}", "txt">>), Ok(<<"}", "txt", "{">>),
     Ok(<<"{", "txt", "}">>), Ok(<<"{", "}">>)}
    \cup {Ok(<<"{", b, "}">>) : b \in DOMAIN AnalysisBodies}

SqlCompletions ==
    {Raise("503 model overloaded"), Ok(<<"I cannot write that query">>),
     Ok(<<"txt", "{", "S_ok", "}">>), Ok(<<"{", "S_ok", "}", "{", "S_delete", "}">>)}
    \cup {Ok(<<"{", b, "}">>) : b \in DOMAIN SqlBodies}

ResponseCompletions ==
    {Raise("503 model overloaded"), Ok("  Found 3 profiles near the equator.\n"), Ok(" \n")}

LogStores == {"ok", "session", "commit"}

\* the rows of the embeddings table that pass the filters, with their scores
CandidateLists ==
    {<<[content |-> "Unrelated", similarity |-> 5],
       [content |-> "Salinity units", similarity |-> 30],
       [content |-> "Argo floats profile the upper 2000 m", similarity |-> 90],
       [content |-> "Pressure units", similarity |-> 30],
       [content |-> "Indian Ocean summary", similarity |-> 31],
       [content |-> "Release notes", similarity |-> 2],
       [content |-> "License", similarity |-> 1]>>,
     <<[content |-> "Float 2902746", similarity |-> 45],
       [content |-> "Arabian Sea monsoon", similarity |-> 80],
       [content |-> "Float 2902747", similarity |-> 45],
       [content |-> "Bay of Bengal salinity", similarity |-> 62],
       [content |-> "Oxygen minimum zone", similarity |-> 33],
       [content |-> "Float 2902748", similarity |-> 45]>>}

SearchOutcomes ==
    {Raise("collection not found"), Ok(<<>>), Ok(<<[content |-> "no score"]>>)}
    \cup {Ok(semantic_search(c, SearchLimit)) : c \in CandidateLists}

ProfileRows == 12

ResultSets ==
    {[columns |-> <<"latitude", "longitude", "avg_temp">>, rows |-> <<>>],
     [columns |-> <<"latitude", "longitude", "avg_temp">>,
      rows |-> <<<<JNum(-15), JNum(72), JNum(24)>>>>],
     [columns |-> <<"total_profiles">>, rows |-> <<<<JNum(5)>>>>],
     [columns |-> <<"pressure", "temperature", "profile_date">>,
      rows |-> [i \in 1..ProfileRows |-> <<JNum(10 * i), JNum(30 - i), JStr("2024-01-01")>>]]}

StoreOutcomes ==
    {[fail |-> f, msg |-> "database is locked", columns |-> <<>>, rows |-> <<>>] :
        f \in {"session", "execute", "keys", "fetchall"}}
    \cup {[fail |-> "none", msg |-> "", columns |-> rs.columns, rows |-> rs.rows] :
            rs \in ResultSets}

(***************************************************************************)
(* Spec: one request, from construction of the RAG system to the answer    *)
(***************************************************************************)
Init ==
    /\ v_sql = ""
    /\ v_result = None
    /\ z_analysis = None
    /\ z_rows = None
    /\ z_result = None
    /\ t_args = None
    /\ t_profiles = <<>>
    /\ t_result = None
    /\ copy \in {"platform", "cleaned"}
    /\ model \in BOOLEAN
    /\ pc = "idle"
    /\ calls = 0
    /\ now = 0
    /\ user_query = None
    /\ session_arg = None
    /\ session_id = ""
    /\ start_time = 0
    /\ query_analysis = None
    /\ context = <<>>
    /\ search_call = None
    /\ response_call = None
    /\ sql_response = None
    /\ sql_results = None
    /\ sql_metadata = None
    /\ response_text = None
    /\ viz_spec = None
    /\ response = None
    /\ raised = None
    /\ nlu_trace = [x \in {} |-> ""]
    /\ store_used = None
    /\ search_used = None
    /\ log_used = None
    /\ db_log = <<>>
    /\ executed = {}
    /\ conversation_history = <<>>
    /\ completed = [x \in {} |-> 0]
    /\ history_out = None
    /\ http = None
    /\ current = 1
    /\ suspended = <<>>

Next ==
    \/ process_query_enter(UserQueries, SessionIds)
    \/ process_query_understand(UnderstandCompletions, LogStores)
    \/ process_query_context(SearchOutcomes)
    \/ process_query_generate_sql(SqlCompletions)
    \/ process_query_execute_sql(StoreOutcomes)
    \/ process_query_generate_response(ResponseCompletions)
    \/ process_query_visualize
    \/ process_query_return
    \/ chat_endpoint_respond

Spec == Init /\ [][Next]_vars

(***************************************************************************)
(* SpecSessions: up to MaxCalls requests in a row on two session ids, with *)
(* get_conversation_history read between them                              *)
(***************************************************************************)
MaxCalls == 3

SessionQueries == {Some("Tell me about Argo floats in the Indian Ocean"), None}
SessionSessionIds == {Some("s1"), Some("s2")}
SessionUnderstandCompletions ==
    {Raise("503 model overloaded"), Ok(<<"txt">>), Ok(<<"{", "A_greet", "}">>)}
SessionLogStores == {"ok", "commit"}
SessionSearchOutcomes == {Ok(<<>>)}
SessionSqlCompletions == {Raise("503 model overloaded")}
SessionStoreOutcomes ==
    {[fail |-> "session", msg |-> "database is locked", columns |-> <<>>, rows |-> <<>>],
     [fail |-> "none", msg |-> "", columns |-> <<"total_profiles">>,
      rows |-> <<<<JNum(5)>>>>]}
SessionResponseCompletions == {Raise("503 model overloaded"), Ok("Argo floats drift.")}

NextSessions ==
    \/ (calls < MaxCalls /\ process_query_enter(SessionQueries, SessionSessionIds))
    \/ process_query_understand(SessionUnderstandCompletions, SessionLogStores)
    \/ process_query_context(SessionSearchOutcomes)
    \/ process_query_generate_sql(SessionSqlCompletions)
    \/ process_query_execute_sql(SessionStoreOutcomes)
    \/ process_query_generate_response(SessionResponseCompletions)
    \/ process_query_visualize
    \/ process_query_return
    \/ chat_endpoint_respond
    \/ next_request
    \/ get_history({"s1", "s2"}, 0..MaxCalls)

SpecSessions == Init /\ [][NextSessions]_vars

(***************************************************************************)
(* SpecConcurrent: two process_query coroutines on one event loop, for two *)
(* session ids.  The variables of a request are the frame of the running   *)
(* coroutine; the event loop switches coroutines where the running one     *)
(* waits for run_in_executor in _generate_async, before it started, and    *)
(* after it returned.  The singleton GeminiLLM, the clock and the store    *)
(* are shared.                                                             *)
(***************************************************************************)
TaskIds == {1, 2}
TaskSession == <<"s1", "s2">>
TaskQuery == <<"Show temperature in the Arabian Sea", "Hello">>

\* the locals of the running process_query call
Frame ==
    [pc |-> pc, user_query |-> user_query, session_arg |-> session_arg,
     session_id |-> session_id, start_time |-> start_time,
     query_analysis |-> query_analysis, context |-> context,
     search_call |-> search_call, response_call |-> response_call, sql_response |-> sql_response,
     sql_results |-> sql_results, sql_metadata |-> sql_metadata,
     response_text |-> response_text, viz_spec |-> viz_spec,
     response |-> response, raised |-> raised, nlu_trace |-> nlu_trace,
     store_used |-> store_used, search_used |-> search_used, log_used |-> log_used,
     db_log |-> db_log, http |-> http]

\* a coroutine that has not started
IdleFrame ==
    [pc |-> "idle", user_query |-> None, session_arg |-> None,
     session_id |-> "", start_time |-> 0,
     query_analysis |-> None, context |-> <<>>,
     search_call |-> None, response_call |-> None, sql_response |-> None,
     sql_results |-> None, sql_metadata |-> None,
     response_text |-> None, viz_spec |-> None,
     response |-> None, raised |-> None, nlu_trace |-> [x \in {} |-> ""],
     store_used |-> None, search_used |-> None, log_used |-> None,
     db_log |-> <<>>, http |-> None]

\* the positions where the running coroutine gives the event loop back
AwaitPoints ==
    {"idle", "returned", "error_returned", "responded"}
    \cup (IF model THEN {"understand", "generate_sql", "generate_response"} ELSE {})

\* an event loop over coroutines that keep the analysis on the shared GeminiLLM (faulty variant)
switch_task_sharing_analysis ==
    /\ pc \in AwaitPoints
    /\ \E u \in DOMAIN suspended :
        LET f == suspended[u] IN
        /\ suspended' = [t \in (DOMAIN suspended \ {u}) \cup {current} |->
                            IF t = current THEN Frame ELSE suspended[t]]
        /\ current' = u
        /\ pc' = f.pc
        /\ user_query' = f.user_query
        /\ session_arg' = f.session_arg
        /\ session_id' = f.session_id
        /\ start_time' = f.start_time
        /\ query_analysis' = (IF IsNone(query_analysis) THEN f.query_analysis ELSE query_analysis)
        /\ context' = f.context
        /\ search_call' = f.search_call
        /\ response_call' = f.response_call
        /\ sql_response' = f.sql_response
        /\ sql_results' = f.sql_results
        /\ sql_metadata' = f.sql_metadata
        /\ response_text' = f.response_text
        /\ viz_spec' = f.viz_spec
        /\ response' = f.response
        /\ raised' = f.raised
        /\ nlu_trace' = f.nlu_trace
        /\ store_used' = f.store_used
        /\ search_used' = f.search_used
        /\ log_used' = f.log_used
        /\ db_log' = f.db_log
        /\ http' = f.http
    /\ UNCHANGED <<vvars, zvars, tvars, cfgvars, calls, now, executed, conversation_history,
                   completed, history_out>>

\* the event loop resumes another coroutine
switch_task ==
    /\ pc \in AwaitPoints
    /\ \E u \in DOMAIN suspended :
        LET f == suspended[u] IN
        /\ suspended' = [t \in (DOMAIN suspended \ {u}) \cup {current} |->
                            IF t = current THEN Frame ELSE suspended[t]]
        /\ current' = u
        /\ pc' = f.pc
        /\ user_query' = f.user_query
        /\ session_arg' = f.session_arg
        /\ session_id' = f.session_id
        /\ start_time' = f.start_time
        /\ query_analysis' = f.query_analysis
        /\ context' = f.context
        /\ search_call' = f.search_call
        /\ response_call' = f.response_call
        /\ sql_response' = f.sql_response
        /\ sql_results' = f.sql_results
        /\ sql_metadata' = f.sql_metadata
        /\ response_text' = f.response_text
        /\ viz_spec' = f.viz_spec
        /\ response' = f.response
        /\ raised' = f.raised
        /\ nlu_trace' = f.nlu_trace
        /\ store_used' = f.store_used
        /\ search_used' = f.search_used
        /\ log_used' = f.log_used
        /\ db_log' = f.db_log
        /\ http' = f.http
    /\ UNCHANGED <<vvars, zvars, tvars, cfgvars, calls, now, executed, conversation_history,
                   completed, history_out>>

ConcurrentUnderstandCompletions ==
    {Raise("503 model overloaded"), Ok(<<"{", "A_data", "}">>), Ok(<<"{", "A_greet", "}">>)}
ConcurrentLogStores == {"ok", "commit"}
ConcurrentStoreOutcomes ==
    {[fail |-> "execute", msg |-> "database is locked", columns |-> <<>>, rows |-> <<>>],
     [fail |-> "none", msg |-> "", columns |-> <<"latitude", "longitude", "avg_temp">>,
      rows |-> <<<<JNum(-15), JNum(72), JNum(24)>>>>],
     [fail |-> "none", msg |-> "", columns |-> <<"total_profiles">>,
      rows |-> <<<<JNum(5)>>>>]}
ConcurrentInit ==
    /\ v_sql = ""
    /\ v_result = None
    /\ z_analysis = None
    /\ z_rows = None
    /\ z_result = None
    /\ t_args = None
    /\ t_profiles = <<>>
    /\ t_result = None
    /\ copy \in {"platform", "cleaned"}
    /\ model = TRUE
    /\ pc = "idle"
    /\ calls = 0
    /\ now = 0
    /\ user_query = None
    /\ session_arg = None
    /\ session_id = ""
    /\ start_time = 0
    /\ query_analysis = None
    /\ context = <<>>
    /\ search_call = None
    /\ response_call = None
    /\ sql_response = None
    /\ sql_results = None
    /\ sql_metadata = None
    /\ response_text = None
    /\ viz_spec = None
    /\ response = None
    /\ raised = None
    /\ nlu_trace = [x \in {} |-> ""]
    /\ store_used = None
    /\ search_used = None
    /\ log_used = None
    /\ db_log = <<>>
    /\ executed = {}
    /\ conversation_history = <<>>
    /\ completed = [x \in {} |-> 0]
    /\ history_out = None
    /\ http = None
    /\ current = 1
    /\ suspended = [t \in {2} |-> IdleFrame]

ConcurrentNext ==
    \/ process_query_enter({Some(TaskQuery[current])}, {Some(TaskSession[current])})
    \/ process_query_understand(ConcurrentUnderstandCompletions, ConcurrentLogStores)
    \/ process_query_context({Ok(<<>>)})
    \/ process_query_generate_sql({Ok(<<"{", "S_ok", "}">>)})
    \/ process_query_execute_sql(ConcurrentStoreOutcomes)
    \/ process_query_generate_response({Ok("Found 3 profiles near the equator.")})
    \/ process_query_visualize
    \/ process_query_return
    \/ switch_task

SpecConcurrent == ConcurrentInit /\ [][ConcurrentNext]_vars

(***************************************************************************)
(* SpecReordered: the request of Spec with the context retrieval of line   *)
(* 63 and the SQL generation and execution of lines 70-71 run as two       *)
(* tasks, their steps taken in any order; the request goes on to response  *)
(* generation when both have finished.                                     *)
(***************************************************************************)
\* lines 69-71 are over: the intent needs no SQL, or the execution returned
SqlTaskDone(a, used) ==
    Get(a, "intent", "") \notin {"data_query", "visualization"} \/ ~IsNone(used)

\* where the retrieval ran, relative to the two SQL steps
ContextOrder ==
    IF IsNone(sql_response) THEN "before_sql"
    ELSE IF IsNone(store_used) THEN "between_sql_steps" ELSE "after_sql"

\* a retrieval that shares the result variable with the SQL execution (faulty variant)
gather_context_clearing_rows(searches) ==
    /\ pc = "context"
    /\ IsNone(search_used)
    /\ \E search \in searches :
        LET r == _retrieve_context(query_analysis.val, search)
        IN /\ context' = r.context
           /\ search_call' = r.call
           /\ response_call' = response_call
           /\ search_used' = Some(search)
    /\ sql_results' = None
    /\ nlu_trace' = DictSet(nlu_trace, "context", ContextOrder)
    /\ pc' = IF SqlTaskDone(query_analysis.val, store_used)
             THEN "generate_response" ELSE "context"
    /\ UNCHANGED <<vvars, zvars, tvars, schedvars, cfgvars, calls, now, reqvars, query_analysis,
                   sql_response, sql_metadata, response_text, viz_spec,
                   response, raised, store_used, log_used, dbvars,
                   conversation_history, completed, history_out, http>>

\* line 63, as a task of its own
gather_context(searches) ==
    /\ pc = "context"
    /\ IsNone(search_used)
    /\ \E search \in searches :
        LET r == _retrieve_context(query_analysis.val, search)
        IN /\ context' = r.context
           /\ search_call' = r.call
           /\ response_call' = response_call
           /\ search_used' = Some(search)
    /\ nlu_trace' = DictSet(nlu_trace, "context", ContextOrder)
    /\ pc' = IF SqlTaskDone(query_analysis.val, store_used)
             THEN "generate_response" ELSE "context"
    /\ UNCHANGED <<vvars, zvars, tvars, schedvars, cfgvars, calls, now, reqvars, query_analysis,
                   sql_response, sql_results, sql_metadata, response_text, viz_spec,
                   response, raised, store_used, log_used, dbvars,
                   conversation_history, completed, history_out, http>>

\* line 70, inside the SQL task
gather_generate_sql(completions) ==
    /\ pc = "context"
    /\ Get(query_analysis.val, "intent", "") \in {"data_query", "visualization"}
    /\ IsNone(sql_response)
    /\ \E nlu \in completions :
        /\ sql_response' = Some(generate_sql(model, nlu))
        /\ nlu_trace' = DictSet(nlu_trace, "generate_sql",
                                NluOutcome(model, nlu, SqlBodies))
    /\ UNCHANGED <<vvars, zvars, tvars, schedvars, cfgvars, pc, calls, now, reqvars, query_analysis,
                   context, search_call, response_call, sql_results, sql_metadata, response_text, viz_spec,
                   response, raised, store_used, search_used, log_used, dbvars,
                   conversation_history, completed, history_out, http>>

\* line 71, inside the SQL task
gather_execute_sql(stores) ==
    /\ pc = "context"
    /\ ~IsNone(sql_response)
    /\ IsNone(store_used)
    /\ \E store \in stores :
        LET r == _execute_sql_safely(sql_response.val, store)
        IN /\ store_used' = Some(store)
           /\ db_log' = r.log
           /\ executed' = executed \cup
                  {r.log[i].arg : i \in {j \in DOMAIN r.log : r.log[j].op = "execute"}}
           /\ sql_results' = r.results
           /\ sql_metadata' = Some(r.metadata)
    /\ pc' = IF IsNone(search_used) THEN "context" ELSE "generate_response"
    /\ UNCHANGED <<vvars, zvars, tvars, schedvars, cfgvars, calls, now, reqvars, query_analysis,
                   context, search_call, response_call, sql_response, response_text, viz_spec, response,
                   raised, nlu_trace, search_used, log_used, conversation_history,
                   completed, history_out, http>>

ReorderedUnderstandCompletions ==
    {Raise("503 model overloaded")}
    \cup {Ok(<<"{", b, "}">>) : b \in {"A_data", "A_viz", "A_greet", "A_table"}}

NextReordered ==
    \/ process_query_enter({Some("any query")}, SessionIds)
    \/ process_query_understand(ReorderedUnderstandCompletions, LogStores)
    \/ gather_context(SearchOutcomes)
    \/ gather_generate_sql(SqlCompletions)
    \/ gather_execute_sql(StoreOutcomes)
    \/ process_query_generate_response(ResponseCompletions)
    \/ process_query_visualize
    \/ process_query_return

SpecReordered == Init /\ [][NextReordered]_vars

(***************************************************************************)
(* Validator harness: every text built from the fragments below is handed  *)
(* to _validate_sql_safety once.                                           *)
(***************************************************************************)
SqlLead == {"", "  ", "\n\t "}
SqlHead == {"select", "SELECT", "Select", "selec", "update t set x = 1;",
            "with c as (select 1) select", "-- select\n"}
SqlBody ==
    {" * from t", " stop_id from t", " created_at from t",
     " * from t; DROP TABLE t", " Updated_At from t", " * from t /* Grant */"}
    \cup {" * from t -- " \o forbidden_keywords[i] : i \in DOMAIN forbidden_keywords}
SqlTail == {"", " limit 10", " LIMIT 5", " Top 3 ", "\n"}

SqlTexts == {l \o h \o b \o t : l \in SqlLead, h \in SqlHead, b \in SqlBody, t \in SqlTail}

VInit ==
    /\ v_sql \in SqlTexts
    /\ v_result = None
    /\ z_analysis = None
    /\ z_rows = None
    /\ z_result = None
    /\ t_args = None
    /\ t_profiles = <<>>
    /\ t_result = None
    /\ copy = "cleaned"
    /\ model = FALSE
    /\ pc = "idle"
    /\ calls = 0
    /\ now = 0
    /\ user_query = None
    /\ session_arg = None
    /\ session_id = ""
    /\ start_time = 0
    /\ query_analysis = None
    /\ context = <<>>
    /\ search_call = None
    /\ response_call = None
    /\ sql_response = None
    /\ sql_results = None
    /\ sql_metadata = None
    /\ response_text = None
    /\ viz_spec = None
    /\ response = None
    /\ raised = None
    /\ nlu_trace = [x \in {} |-> ""]
    /\ store_used = None
    /\ search_used = None
    /\ log_used = None
    /\ db_log = <<>>
    /\ executed = {}
    /\ conversation_history = <<>>
    /\ completed = [x \in {} |-> 0]
    /\ history_out = None
    /\ http = None
    /\ current = 1
    /\ suspended = <<>>

Validate ==
    /\ IsNone(v_result)
    /\ v_result' = Some(_validate_sql_safety(v_sql))
    /\ UNCHANGED <<v_sql, zvars, tvars, schedvars, cfgvars, pc, calls, now, reqvars, locals, response, raised,
                   tracevars, dbvars, conversation_history, completed, history_out,
                   http>>

VNext == Validate

SpecValidator == VInit /\ [][VNext]_vars

(***************************************************************************)
(* Visualization harness: _create_visualization_spec is called once on     *)
(* each analysis and each result set built from the column lists and row   *)
(* counts below.                                                           *)
(***************************************************************************)
MaxVizRows == 101

VizColumnLists ==
    {<<"latitude", "longitude", "avg_temp">>,
     <<"lat", "depth", "profile_date", "temperature">>,
     <<"profile_date", "pressure", "lon">>,
     <<"pressure", "temperature", "profile_date">>,
     <<"time", "depth", "salinity", "oxygen", "temperature", "nitrate">>,
     <<"profile_date", "temperature", "salinity", "oxygen">>,
     <<"float_id", "date">>,
     <<"total_profiles">>,
     <<"deployment_latitude", "avg_lon", "value">>,
     <<"LAT", "LON", "Depth">>,
     <<"max_pressure", "temperature">>,
     <<"profile_time", "temperature">>,
     <<"sea_depth", "cast", "pressure", "temperature">>,
     <<"value", "runtime", "date", "count", "flag">>,
     <<"platform_number", "latitude", "longitude", "temperature">>,
     <<"latitude", "temperature">>,
     <<"cycle", "lon", "salinity">>,
     <<>>}

VizRowCounts == {0, 1, 2, VizMaxRows, MaxVizRows}

\* the value of column `name` in row i: text for date, time, cast and flag columns,
\* a number otherwise
VizValue(name, i) ==
    IF StrContains(StrLower(name), "date") \/ StrContains(StrLower(name), "time")
    THEN JStr("2024-01-01")
    ELSE IF name \in {"cast", "flag"} THEN JStr("A") ELSE JNum(i)

VizRows(columns, n) ==
    [i \in 1..n |-> DictZip(columns, [j \in DOMAIN columns |-> VizValue(columns[j], i)])]

VizResults ==
    {None} \cup {Some(VizRows(c, n)) : c \in VizColumnLists, n \in VizRowCounts}

VizAnalyses ==
    {_mock_query_understanding, _parse_understanding_response(<<"txt">>),
     AnalysisBodies.A_data, AnalysisBodies.A_viz, AnalysisBodies.A_nullent}

\* no request is in progress
NoRequest ==
    /\ copy = "cleaned"
    /\ model = FALSE
    /\ pc = "idle"
    /\ calls = 0
    /\ now = 0
    /\ user_query = None
    /\ session_arg = None
    /\ session_id = ""
    /\ start_time = 0
    /\ query_analysis = None
    /\ context = <<>>
    /\ search_call = None
    /\ response_call = None
    /\ sql_response = None
    /\ sql_results = None
    /\ sql_metadata = None
    /\ response_text = None
    /\ viz_spec = None
    /\ response = None
    /\ raised = None
    /\ nlu_trace = [x \in {} |-> ""]
    /\ store_used = None
    /\ search_used = None
    /\ log_used = None
    /\ db_log = <<>>
    /\ executed = {}
    /\ conversation_history = <<>>
    /\ completed = [x \in {} |-> 0]
    /\ history_out = None
    /\ http = None
    /\ current = 1
    /\ suspended = <<>>

VizInit ==
    /\ v_sql = ""
    /\ v_result = None
    /\ z_analysis \in {Some(a) : a \in VizAnalyses}
    /\ z_rows \in VizResults
    /\ z_result = None
    /\ t_args = None
    /\ t_profiles = <<>>
    /\ t_result = None
    /\ NoRequest

Synthesize ==
    /\ IsNone(z_result)
    /\ z_result' = Some(_create_visualization_spec(z_analysis.val, z_rows))
    /\ UNCHANGED <<vvars, z_analysis, z_rows, tvars, schedvars, cfgvars, pc, calls, now, reqvars, locals,
                   response, raised, tracevars, dbvars, conversation_history,
                   completed, history_out, http>>

VizNext == Synthesize

SpecViz == VizInit /\ [][VizNext]_vars

(***************************************************************************)
(* backend/app/services/timeline_service.py (TimelineService).  A profile  *)
(* is the dict process_profiles builds: float_id, timestamp (a pandas      *)
(* Timestamp, kept as its year and month, or NaT), latitude, longitude     *)
(* and, when the profile has valid samples, the list temperature.  Means   *)
(* are kept as exact fractions; the draws of numpy's random generator are  *)
(* a stream of numbers in {0, 1} (the low end and the middle of the        *)
(* range).                                                                 *)
(***************************************************************************)
NaT == [nat |-> TRUE]
Timestamp(year, month) == [nat |-> FALSE, year |-> year, month |-> month]

Q(n, d) == [num |-> n, den |-> d]

RECURSIVE SumInts(_)
SumInts(list) == IF Len(list) = 0 THEN 0 ELSE Head(list) + SumInts(Tail(list))

RECURSIVE SumQ(_)
SumQ(list) ==
    IF Len(list) = 0 THEN Q(0, 1)
    ELSE LET h == Head(list)
             t == SumQ(Tail(list))
         IN IF h.den = t.den THEN Q(h.num + t.num, h.den)
            ELSE Q(h.num * t.den + t.num * h.den, h.den * t.den)

\* numpy's mean of a non-empty list of numbers, of fractions
MeanInts(list) == Q(SumInts(list), Len(list))
MeanQ(list) == LET total == SumQ(list) IN Q(total.num, total.den * Len(list))

\* np.random.uniform(lo, hi) and np.random.randint(lo, hi) for the draw u
uniform(lo, hi, u) == Q(2 * lo + u * (hi - lo), 2)
randint(lo, hi, u) == lo + u * (hi - 1 - lo)

\* line 11-17
region_bboxes ==
    [global |-> <<-180, -90, 180, 90>>,
     indian_ocean |-> <<30, -60, 120, 30>>,
     pacific |-> <<100, -60, 290, 60>>,
     atlantic |-> <<-80, -60, 20, 60>>,
     north_atlantic |-> <<-60, 30, -30, 60>>]

\* lines 113-135: twelve made-up months of 2010; 15 + 5 sin((month - 1) pi / 6) in thousandths
SeasonalTemperature ==
    <<15000, 17500, 19330, 20000, 19330, 17500, 15000, 12500, 10670, 10000, 10670, 12500>>

_generate_synthetic_monthly_data(parameter, stream) ==
    [month \in 1..12 |->
        [year |-> 2010, month |-> month, latitude |-> Q(45, 1), longitude |-> Q(-30, 1),
         value |-> IF parameter = "temperature" THEN Q(SeasonalTemperature[month], 1000)
                   ELSE IF parameter = "salinity"
                   THEN SumQ(<<Q(35, 1), uniform(-1, 1, stream[2 * month - 1])>>)
                   ELSE uniform(0, 100, stream[2 * month - 1]),
         count |-> randint(5, 15, stream[2 * month])]]

\* the DataFrame has a column of this name
HasColumn(profiles, name) ==
    name \in {"year", "month"} \/ \E i \in DOMAIN profiles : name \in DOMAIN profiles[i]

\* lines 80-85 for one row: Ok(Some(number appended)), Ok(None) when the cell is skipped,
\* Raise when float() raises
ParamValue(p, parameter) ==
    IF parameter \in {"year", "month"} THEN Ok(Some(Q(p.timestamp[parameter], 1)))
    ELSE IF parameter \notin DOMAIN p THEN Ok(None)
    ELSE IF parameter \in {"temperature", "salinity"}
    THEN (IF Len(p[parameter]) > 0 THEN Ok(Some(MeanInts(p[parameter]))) ELSE Ok(None))
    ELSE IF parameter = "timestamp"
    THEN Raise("float() argument must be a string or a real number, not 'Timestamp'")
    ELSE Ok(Some(Q(p[parameter], 1)))

\* the keys of df.groupby(['year', 'month']): rows whose timestamp is NaT have no key
MonthKeys(profiles) ==
    {<<profiles[i].timestamp.year, profiles[i].timestamp.month>> :
        i \in {j \in DOMAIN profiles : ~profiles[j].timestamp.nat}}

RECURSIVE SortedKeys(_)
\* the keys in ascending (year, month) order
SortedKeys(keys) ==
    IF keys = {} THEN <<>>
    ELSE LET k == CHOOSE x \in keys :
                    \A y \in keys : x[1] < y[1] \/ (x[1] = y[1] /\ x[2] <= y[2])
         IN <<k>> \o SortedKeys(keys \ {k})

\* lines 47-111
_calculate_monthly_averages(profiles, parameter, stream) ==
    IF Len(profiles) = 0 THEN <<>>
    ELSE IF ~HasColumn(profiles, "timestamp") THEN <<>>
    ELSE
      LET keys == SortedKeys(MonthKeys(profiles))
          rows(k) == SelectIdx(profiles,
                         {i \in DOMAIN profiles :
                             /\ ~profiles[i].timestamp.nat
                             /\ profiles[i].timestamp.year = keys[k][1]
                             /\ profiles[i].timestamp.month = keys[k][2]}, 1)
          cells(k) == [i \in DOMAIN rows(k) |-> ParamValue(rows(k)[i], parameter)]
          param_values(k) ==
              LET kept == SelectIdx(cells(k),
                              {i \in DOMAIN cells(k) : ~IsNone(cells(k)[i].val)}, 1)
              IN [i \in DOMAIN kept |-> kept[i].val.val]
          value(k) ==
              IF HasColumn(profiles, parameter)
              THEN (IF Len(param_values(k)) > 0 THEN MeanQ(param_values(k))
                    ELSE uniform(10, 20, stream[k]))
              ELSE IF parameter = "temperature" THEN uniform(10, 25, stream[k])
              ELSE IF parameter = "salinity" THEN uniform(34, 37, stream[k])
              ELSE uniform(0, 100, stream[k])
          raises == /\ HasColumn(profiles, parameter)
                    /\ \E k \in DOMAIN keys : \E i \in DOMAIN cells(k) : ~cells(k)[i].ok
      IN IF raises THEN _generate_synthetic_monthly_data(parameter, stream)
         ELSE [k \in DOMAIN keys |->
                  [year |-> keys[k][1], month |-> keys[k][2],
                   latitude |-> MeanInts([i \in DOMAIN rows(k) |-> rows(k)[i].latitude]),
                   longitude |-> MeanInts([i \in DOMAIN rows(k) |-> rows(k)[i].longitude]),
                   count |-> Len(rows(k)),
                   value |-> value(k)]]

TimelineMaxProfiles == 20

\* lines 19-45; `profiles` is what process_profiles returned for the fetched dataset
get_timeline_data(start_date, end_date, region, parameter, profiles, stream) ==
    LET bbox == Get(region_bboxes, region, region_bboxes["global"])
        monthly_averages == _calculate_monthly_averages(profiles, parameter, stream)
    IN [profiles |-> Take(profiles, TimelineMaxProfiles),
        monthly_averages |-> monthly_averages,
        metadata |-> [data_points |-> Len(profiles),
                      monthly_points |-> Len(monthly_averages),
                      region |-> region,
                      parameter |-> parameter,
                      time_range |-> start_date \o " to " \o end_date,
                      bbox |-> bbox]]

(***************************************************************************)
(* SpecTimeline: get_timeline_data is called once on every input below     *)
(***************************************************************************)
MaxProfiles == 21

ProfileCounts == {0, 1, 3, TimelineMaxProfiles, MaxProfiles}
TimestampPatterns == {"one_month", "three_months", "some_nat"}
TimelineParameters == {"temperature", "salinity", "timestamp", "oxygen"}
TimelineRegions == {"global", "indian_ocean", "southern_ocean"}

\* the timestamp of the i-th profile of the dataset
PatternTimestamp(pattern, i) ==
    IF pattern = "one_month" THEN Timestamp(2024, 3)
    ELSE IF i % 3 = 1 THEN Timestamp(2024, 3)
    ELSE IF i % 3 = 2 THEN Timestamp(2023, 11)
    ELSE IF pattern = "some_nat" THEN NaT
    ELSE Timestamp(2024, 1)

\* process_profiles, lines 304-325 of argo_service.py: TEMP is kept when it has valid samples
TimelineProfile(pattern, i) ==
    LET base == [float_id |-> "290274" \o ToString(i % 10),
                 timestamp |-> PatternTimestamp(pattern, i),
                 latitude |-> i - 10, longitude |-> 60 + i]
    IN IF i % 4 = 0 THEN base
       ELSE DictSet(base, "temperature", IF i = 2 THEN <<10, 13>> ELSE <<20 + (i % 3)>>)

TimelineProfiles(pattern, n) == [i \in 1..n |-> TimelineProfile(pattern, i)]

\* three streams of random draws
RandomStreams ==
    {[i \in 1..24 |-> 0], [i \in 1..24 |-> 1], [i \in 1..24 |-> i % 2]}

TimelineInit ==
    /\ v_sql = ""
    /\ v_result = None
    /\ z_analysis = None
    /\ z_rows = None
    /\ z_result = None
    /\ t_args \in {Some([start_date |-> "2023-11-01", end_date |-> "2024-03-31",
                         region |-> r, parameter |-> p]) :
                      r \in TimelineRegions, p \in TimelineParameters}
    /\ t_profiles \in {TimelineProfiles(pattern, n) :
                          pattern \in TimestampPatterns, n \in ProfileCounts}
    /\ t_result = None
    /\ NoRequest

Timeline ==
    /\ IsNone(t_result)
    /\ \E stream \in RandomStreams :
        t_result' = Some(get_timeline_data(t_args.val.start_date, t_args.val.end_date,
                                           t_args.val.region, t_args.val.parameter,
                                           t_profiles, stream))
    /\ UNCHANGED <<vvars, zvars, t_args, t_profiles, schedvars, cfgvars, pc, calls, now,
                   reqvars, locals, response, raised, tracevars, dbvars,
                   conversation_history, completed, history_out, http>>

SpecTimeline == TimelineInit /\ [][Timeline]_vars

(***************************************************************************)
(* C2: _validate_sql_safety(s) is true exactly when the trimmed,           *)
(* lower-cased s starts with 'select', contains none of the eleven         *)
(* forbidden words as a substring, and contains 'limit' or 'top'.          *)
(***************************************************************************)
ForbiddenWords ==
    {"delete", "update", "insert", "drop", "create", "alter", "truncate",
     "exec", "execute", "grant", "revoke"}

C2_Accepts(s) ==
    LET t == StrLower(StrStrip(s)) IN
    /\ StartsWith(t, "select")
    /\ \A k \in ForbiddenWords : ~StrContains(t, k)
    /\ StrContains(t, "limit") \/ StrContains(t, "top")

SqlOf(sql_resp) == Get(sql_resp, "sql", JStr(""))

C1_OnlyValidatedTextExecuted ==
    /\ \A s \in executed : validate_sql_safety_call(s)
    /\ \A i \in DOMAIN db_log :
          db_log[i].op = "execute" =>
              /\ ~IsNone(sql_response)
              /\ IsStr(SqlOf(sql_response.val))
              /\ db_log[i].arg = SqlOf(sql_response.val).str
              /\ validate_sql_safety_call(db_log[i].arg)
    /\ (/\ ~IsNone(store_used)
        /\ IsStr(SqlOf(sql_response.val))
        /\ ~validate_sql_safety_call(SqlOf(sql_response.val).str))
       => /\ db_log = <<>>
          /\ ~IsNone(sql_metadata)
          /\ IsNone(sql_results)
          /\ DOMAIN sql_metadata.val = {"error"}
          /\ sql_metadata.val.error = "Query failed safety validation"

\* a validated text went to the store, inside one session
C1_Witness ==
    /\ \E i \in DOMAIN db_log :
          db_log[i].op = "execute" /\ db_log[i].arg = SqlBodies.S_ok.sql.str
    /\ executed # {}

(***************************************************************************)
(* C3 (as claimed): whenever SQL generation fails (the NLU call raises or  *)
(* its completion holds no parseable JSON) the fallback sql is accepted by *)
(* _validate_sql_safety and the executor does not answer 'Query failed     *)
(* safety validation'.                                                     *)
(***************************************************************************)
C3_FallbackSqlIsSafe ==
    (/\ ~IsNone(sql_response)
     /\ nlu_trace["generate_sql"] \in {"raised", "malformed"})
    => /\ IsStr(SqlOf(sql_response.val))
       /\ validate_sql_safety_call(SqlOf(sql_response.val).str)
       /\ (~IsNone(sql_metadata) /\ "error" \in DOMAIN sql_metadata.val)
          => sql_metadata.val.error # "Query failed safety validation"

(***************************************************************************)
(* C4 (as claimed): when process_query ended in its error path, the chat   *)
(* endpoint answers 200 with the failure text in the body's error field.   *)
(***************************************************************************)
C4_ErrorFieldPopulated ==
    (~IsNone(http) /\ "error" \in DOMAIN response.val)
    => /\ http.val.status = 200
       /\ ~IsNone(http.val.body.error)
       /\ http.val.body.error.val = response.val.error

(***************************************************************************)
(* C5 (as claimed): when every NLU call of the request failed (model       *)
(* unavailable or raising), process_query on a text query returns the      *)
(* success response: non-empty response_text, original_query equal to the  *)
(* query, no error field.                                                  *)
(***************************************************************************)
AllNluFailed ==
    \A k \in DOMAIN nlu_trace : nlu_trace[k] \in {"unavailable", "raised"}

C5_NluOutageStillSucceeds ==
    (/\ pc \in {"returned", "error_returned"}
     /\ ~IsNone(user_query)
     /\ AllNluFailed)
    => /\ pc = "returned"
       /\ "error" \notin DOMAIN response.val
       /\ response.val.response_text # ""
       /\ "original_query" \in DOMAIN response.val.query_analysis
       /\ response.val.query_analysis.original_query = user_query.val

(***************************************************************************)
(* C6 (as claimed): on every understanding failure (model unavailable,     *)
(* call raising, or completion without parseable JSON) the analysis is the *)
(* same fallback: data_query, en, requires_visualization, Indian Ocean     *)
(* entities, original_query attached.                                      *)
(***************************************************************************)
C6_OneUnderstandingFallback ==
    (/\ ~IsNone(query_analysis)
     /\ nlu_trace["understand"] \in {"unavailable", "raised", "malformed"})
    => LET a == query_analysis.val
           entities == Get(a, "entities", [x \in {} |-> JNull])
       IN /\ Get(a, "intent", "") = "data_query"
          /\ Get(a, "language", "") = "en"
          /\ Truthy(a, "requires_visualization")
          /\ "geographic_region" \in DOMAIN entities
          /\ entities.geographic_region = "Indian Ocean"
          /\ "original_query" \in DOMAIN a
          /\ a.original_query = user_query.val

(***************************************************************************)
(* C7: process_query ends in `returned` or `error_returned` and no         *)
(* exception escapes: nothing is returned before a terminal position, an   *)
(* exception raised at any step gives the error response (apology text     *)
(* embedding str(e), error = str(e), the caller's or the generated session *)
(* id, processing_time_ms = 0), and the success response carries no error. *)
(***************************************************************************)
ExpectedSessionId ==
    IF IsNone(session_arg) THEN "session_" \o isoformat(start_time) ELSE session_arg.val

C7_TwoTerminalStates ==
    /\ pc \in {"idle", "understand", "context", "generate_sql", "execute_sql",
               "generate_response", "visualize", "compile",
               "returned", "error_returned", "responded"}
    /\ pc \in {"understand", "context", "generate_sql", "execute_sql",
               "generate_response", "visualize", "compile"}
       => /\ IsNone(raised)
          /\ IsNone(response)
    /\ ~IsNone(raised)
       => /\ pc \in {"error_returned", "responded"}
          /\ ~IsNone(response)
          /\ DOMAIN response.val = {"response_text", "error", "session_id",
                                    "timestamp", "processing_time_ms"}
          /\ response.val.error = raised.val.msg
          /\ response.val.response_text =
                 "I apologize, but I encountered an error processing your query: "
                 \o raised.val.msg
                 \o ". Please try rephrasing your question or ask for help with Argo data queries."
          /\ response.val.session_id = ExpectedSessionId
          /\ response.val.processing_time_ms = 0
    /\ pc = "error_returned" => ~IsNone(raised)
    /\ pc = "returned"
       => /\ IsNone(raised)
          /\ "error" \notin DOMAIN response.val
          /\ response.val.session_id = ExpectedSessionId

\* the mock text generation raised inside generate_response, with a generated session id
C7_Witness ==
    /\ pc = "error_returned"
    /\ raised.val.at = "generate_response"
    /\ IsNone(session_arg)
    /\ response.val.error = "'NoneType' object has no attribute 'get'"

(***************************************************************************)
(* C8 (as claimed): after N process_query calls on a session returned the  *)
(* success response, get_conversation_history(session, N) returns exactly  *)
(* N turns, oldest first.                                                  *)
(***************************************************************************)
C8_HistoryHasOneTurnPerCall ==
    (/\ ~IsNone(history_out)
     /\ history_out.val.reads
     /\ history_out.val.limit = Get(completed, history_out.val.session_id, 0))
    => Len(history_out.val.history) = history_out.val.limit

(***************************************************************************)
(* C9: _execute_sql_safely never raises: whatever the sql value and        *)
(* whichever store operation raises, process_query receives a pair, and a  *)
(* failure is the pair (None, {error: str(exception)}).                    *)
(***************************************************************************)
C9_ExecutorNeverRaises ==
    ~IsNone(store_used) =>
        /\ ~IsNone(raised) => raised.val.at # "execute_sql"
        /\ ~IsNone(sql_metadata)
        /\ ~IsStr(SqlOf(sql_response.val))
           => /\ IsNone(sql_results)
              /\ sql_metadata.val = [error |-> NotAStringError(SqlOf(sql_response.val))]
        /\ (/\ IsStr(SqlOf(sql_response.val))
            /\ validate_sql_safety_call(SqlOf(sql_response.val).str)
            /\ store_used.val.fail # "none")
           => /\ IsNone(sql_results)
              /\ sql_metadata.val = [error |-> store_used.val.msg]

\* fetchall raised inside the session and the pipeline went on with (None, {error})
C9_Witness ==
    /\ ~IsNone(store_used)
    /\ store_used.val.fail = "fetchall"
    /\ db_log # <<>>
    /\ pc = "generate_response"
    /\ IsNone(sql_results)
    /\ sql_metadata.val = [error |-> "database is locked"]

(***************************************************************************)
(* C10: in every result of _execute_sql_safely rows is None exactly when   *)
(* metadata has an 'error' key; when rows is not None, metadata.query is   *)
(* the validated sql and metadata.rows_returned is the number of rows.     *)
(***************************************************************************)
C10_RowsXorError ==
    ~IsNone(sql_metadata) =>
        /\ IsNone(sql_results) <=> "error" \in DOMAIN sql_metadata.val
        /\ ~IsNone(sql_results)
           => /\ DOMAIN sql_metadata.val =
                     {"query", "explanation", "rows_returned", "safety_checks"}
              /\ sql_metadata.val.query = SqlOf(sql_response.val).str
              /\ validate_sql_safety_call(sql_metadata.val.query)
              /\ sql_metadata.val.rows_returned = Len(sql_results.val)
              /\ Len(sql_results.val) = Len(store_used.val.rows)

\* more rows than the response cap came back from the store
C10_Witness ==
    /\ ~IsNone(sql_results)
    /\ Len(sql_results.val) = ProfileRows
    /\ sql_metadata.val.rows_returned = ProfileRows
(***************************************************************************)
(* C11: the visualization of a process_query response is non-null only    *)
(* if the analysis has requires_visualization true and the executed rows   *)
(* are a non-empty list; _create_visualization_spec returns None for an    *)
(* absent or empty row list.                                               *)
(***************************************************************************)
RowsPresent(results) == ~IsNone(results) /\ Len(results.val) > 0

C11_VisualizationNeedsFlagAndRows ==
    /\ ~IsNone(viz_spec)
       => /\ Truthy(query_analysis.val, "requires_visualization")
          /\ RowsPresent(sql_results)
    /\ (~IsNone(response) /\ "visualization" \in DOMAIN response.val)
       => /\ response.val.visualization = viz_spec
          /\ ~IsNone(response.val.visualization)
             => /\ Truthy(response.val.query_analysis, "requires_visualization")
                /\ response.val.total_data_rows > 0
    /\ ~IsNone(query_analysis)
       => /\ IsNone(_create_visualization_spec(query_analysis.val, None))
          /\ IsNone(_create_visualization_spec(query_analysis.val, Some(<<>>)))

\* a response that carries a visualization built from one row
C11_Witness ==
    /\ pc = "returned"
    /\ ~IsNone(response.val.visualization)
    /\ response.val.visualization.val.data_count = 1
(***************************************************************************)
(* C12: for every non-empty row list of length n, in every branch (map,    *)
(* profile, timeseries, scatter), the spec _create_visualization_spec      *)
(* returns has data = the first min(n, 100) rows in order, data_count = n, *)
(* columns = the column list of the first row, and a title.  (A spec is    *)
(* returned whenever the analysis' entities are a dict.)                   *)
(***************************************************************************)
ColumnsOf(row) == [j \in DOMAIN row |-> row[j].k]

C12_SpecKeepsFirstHundredRows ==
    (~IsNone(z_result) /\ RowsPresent(z_rows))
    => LET rows == z_rows.val
           n == Len(rows)
           out == z_result.val
       IN /\ IsDict(Get(z_analysis.val, "entities", [x \in {} |-> JNull])) => ~IsNone(out)
          /\ ~IsNone(out)
             => /\ out.val.type \in {"map", "profile", "timeseries", "scatter"}
                /\ Len(out.val.data) = (IF n < 100 THEN n ELSE 100)
                /\ \A i \in DOMAIN out.val.data : out.val.data[i] = rows[i]
                /\ out.val.data_count = n
                /\ out.val.columns = ColumnsOf(rows[1])
                /\ "title" \in DOMAIN out.val
                /\ out.val.title # ""

\* more rows than the cap: a map spec with 100 of them and the full count
C12_Witness ==
    /\ ~IsNone(z_result)
    /\ ~IsNone(z_result.val)
    /\ z_result.val.val.type = "map"
    /\ Len(z_rows.val) = MaxVizRows
    /\ Len(z_result.val.val.data) = 100
    /\ z_result.val.val.data_count = MaxVizRows
(***************************************************************************)
(* C13: the type is the first match in the order coordinates, depth,       *)
(* temporal, scatter: a coordinate column gives map even when depth and    *)
(* time columns are present; a depth or pressure column without a          *)
(* coordinate column gives profile even when a time column is present;     *)
(* only a time column gives timeseries; otherwise scatter.                 *)
(***************************************************************************)
HasName(columns, names) == \E j \in DOMAIN columns : columns[j] \in names

CoordinateNames == {"latitude", "longitude", "lat", "lon"}
DepthNames == {"depth", "pressure"}
TemporalNames == {"date", "time", "profile_date"}

C13_TypeByPriority ==
    (~IsNone(z_result) /\ ~IsNone(z_result.val))
    => LET columns == ColumnsOf(z_rows.val[1])
           type == z_result.val.val.type
       IN /\ HasName(columns, CoordinateNames) => type = "map"
          /\ (~HasName(columns, CoordinateNames) /\ HasName(columns, DepthNames))
             => type = "profile"
          /\ (/\ ~HasName(columns, CoordinateNames)
              /\ ~HasName(columns, DepthNames)
              /\ HasName(columns, TemporalNames))
             => type = "timeseries"
          /\ (/\ ~HasName(columns, CoordinateNames)
              /\ ~HasName(columns, DepthNames)
              /\ ~HasName(columns, TemporalNames))
             => type = "scatter"

\* coordinate, depth and time columns together: the spec is a map
C13_Witness ==
    /\ ~IsNone(z_result)
    /\ ~IsNone(z_result.val)
    /\ ColumnsOf(z_rows.val[1]) = <<"lat", "depth", "profile_date", "temperature">>
    /\ z_result.val.val.type = "map"
(***************************************************************************)
(* C14: when the SQL of a data_query / visualization request is rejected   *)
(* by the validator or fails in the store, the pipeline is not aborted:    *)
(* the executor's failure is never what process_query catches, response    *)
(* generation is still invoked with rows = None and the retrieved context, *)
(* and the success response has no error field, data_results = None,       *)
(* total_data_rows = 0, visualization = None and sql_metadata carrying the *)
(* error.  With the cleaned_repo llm.py the request always ends in that    *)
(* success response; with the other copy the only later failure is the     *)
(* mock text generation on entities that are not a dict.                   *)
(***************************************************************************)
ExecutorFailed ==
    /\ ~IsNone(store_used)
    /\ \/ ~IsStr(SqlOf(sql_response.val))
       \/ ~validate_sql_safety_call(SqlOf(sql_response.val).str)
       \/ store_used.val.fail # "none"

MalformedEntities(a) ==
    LET entities == Get(a, "entities", [x \in {} |-> JNull]) IN
    \/ ~IsDict(entities)
    \/ /\ "geographic_region" \in DOMAIN entities
       /\ ~IsText(entities.geographic_region)

SearchFailed(search) ==
    \/ ~search.ok
    \/ \E i \in DOMAIN search.val : "similarity" \notin DOMAIN search.val[i]

ContainsAny(columns, names) ==
    \E j \in DOMAIN columns : \E n \in names : StrContains(StrLower(columns[j]), n)

C16_FlagsBySubstringScan ==
    (~IsNone(z_result) /\ ~IsNone(z_result.val))
    => LET columns == ColumnsOf(z_rows.val[1]) IN
       z_result.val.val.type =
           (IF ContainsAny(columns, CoordinateNames) THEN "map"
            ELSE IF ContainsAny(columns, DepthNames) THEN "profile"
            ELSE IF ContainsAny(columns, TemporalNames) THEN "timeseries"
            ELSE "scatter")

(***************************************************************************)
(* C16 (amended): the role flags come from exact, case-sensitive           *)
(* membership of the fixed names in the column list: the type is map       *)
(* exactly when a column is named latitude, longitude, lat or lon, profile *)
(* only when one is named depth or pressure, timeseries only when one is   *)
(* named date, time or profile_date; rows whose names merely contain such  *)
(* a word (deployment_latitude, LAT, avg_lon, max_pressure, profile_time)  *)
(* give scatter.                                                           *)
(***************************************************************************)
AllRoleNames == CoordinateNames \cup DepthNames \cup TemporalNames

C16_FlagsByExactName ==
    (~IsNone(z_result) /\ ~IsNone(z_result.val))
    => LET columns == ColumnsOf(z_rows.val[1])
           type == z_result.val.val.type
       IN /\ type = "map" <=> HasName(columns, CoordinateNames)
          /\ type = "profile" => HasName(columns, DepthNames)
          /\ type = "timeseries" => HasName(columns, TemporalNames)
          /\ ~HasName(columns, AllRoleNames) => type = "scatter"
          /\ type = "scatter" => ~HasName(columns, AllRoleNames)

\* names that only contain latitude and lon: no flag is set and the spec is a scatter
C16_Witness ==
    /\ ~IsNone(z_result)
    /\ ~IsNone(z_result.val)
    /\ ColumnsOf(z_rows.val[1]) = <<"deployment_latitude", "avg_lon", "value">>
    /\ ContainsAny(ColumnsOf(z_rows.val[1]), CoordinateNames)
    /\ z_result.val.val.type = "scatter"
    /\ "lat_column" \notin DOMAIN z_result.val.val
IntentNeedsSql ==
    Get(query_analysis.val, "intent", "") \in {"data_query", "visualization"}

C18_SqlOnlyForDataIntents ==
    ~IsNone(query_analysis)
    => /\ (\/ "generate_sql" \in DOMAIN nlu_trace
           \/ ~IsNone(sql_response)
           \/ ~IsNone(store_used)
           \/ ~IsNone(sql_metadata)
           \/ db_log # <<>>
           \/ pc \in {"generate_sql", "execute_sql"})
          => IntentNeedsSql
       /\ (IntentNeedsSql /\ pc \in {"generate_response", "visualize", "compile", "returned"})
          => /\ "generate_sql" \in DOMAIN nlu_trace
             /\ ~IsNone(store_used)
       /\ (~IntentNeedsSql /\ pc = "returned")
          => /\ IsNone(response.val.sql_metadata)
             /\ IsNone(response.val.data_results)
             /\ response.val.total_data_rows = 0
             /\ IsNone(response.val.visualization)

\* an export request that asks for a visualization: answered without any SQL
C18_Witness ==
    /\ pc = "returned"
    /\ Get(query_analysis.val, "intent", "") = "export"
    /\ Truthy(query_analysis.val, "requires_visualization")
    /\ IsNone(response.val.sql_metadata)
    /\ IsNone(store_used)
(***************************************************************************)
(* C19: one _execute_sql_safely call opens at most one store session and   *)
(* none is open when it returns: after success the session was closed,     *)
(* after a safety rejection none was opened, after an exception raised by  *)
(* execute / keys / fetchall the session was rolled back and then closed.  *)
(***************************************************************************)
OpsOf(name) == {i \in DOMAIN db_log : db_log[i].op = name}

C19_SessionAlwaysReleased ==
    /\ Cardinality(OpsOf("open")) <= 1
    /\ Cardinality(OpsOf("close")) = Cardinality(OpsOf("open"))
    /\ db_log # <<>>
       => /\ ~IsNone(store_used)
          /\ db_log[1].op = "open"
          /\ db_log[Len(db_log)].op = "close"
          /\ \A i \in OpsOf("execute") \cup OpsOf("rollback") : 1 < i /\ i < Len(db_log)
    /\ ~IsNone(store_used)
       => LET accepted == /\ IsStr(SqlOf(sql_response.val))
                          /\ validate_sql_safety_call(SqlOf(sql_response.val).str)
              fail == store_used.val.fail
          IN /\ (~accepted \/ fail = "session") => db_log = <<>>
             /\ (accepted /\ fail = "none")
                => /\ Cardinality(OpsOf("open")) = 1
                   /\ OpsOf("rollback") = {}
             /\ (accepted /\ fail \in {"execute", "keys", "fetchall"})
                => /\ Cardinality(OpsOf("open")) = 1
                   /\ OpsOf("rollback") = {Len(db_log) - 1}

\* fetchall raised inside the session: execute, then rollback, then close
C19_Witness ==
    /\ ~IsNone(store_used)
    /\ store_used.val.fail = "fetchall"
    /\ Len(db_log) = 4
    /\ db_log[3].op = "rollback"
    /\ db_log[4].op = "close"
(***************************************************************************)
(* C20: in every success response over n executed rows, data_results is    *)
(* the first min(n, 10) rows in their order (None when there are no rows)  *)
(* and total_data_rows = n; the visualization keeps its own cap of 100, so *)
(* for n > 10 it carries rows that data_results does not.                  *)
(***************************************************************************)
C20_DataResultsCappedAtTen ==
    (~IsNone(response) /\ "data_results" \in DOMAIN response.val)
    => LET out == response.val
           n == IF IsNone(sql_results) THEN 0 ELSE Len(sql_results.val)
       IN /\ out.total_data_rows = n
          /\ n = 0 => IsNone(out.data_results)
          /\ n > 0
             => /\ ~IsNone(out.data_results)
                /\ Len(out.data_results.val) = (IF n < 10 THEN n ELSE 10)
                /\ \A i \in DOMAIN out.data_results.val :
                       out.data_results.val[i] = sql_results.val[i]
          /\ ~IsNone(out.visualization)
             => /\ Len(out.visualization.val.data) = (IF n < 100 THEN n ELSE 100)
                /\ out.visualization.val.data_count = n

\* twelve or more rows: ten in data_results, all of them in the visualization
C20_Witness ==
    /\ pc = "returned"
    /\ response.val.total_data_rows = ProfileRows
    /\ Len(response.val.data_results.val) = 10
    /\ ~IsNone(response.val.visualization)
    /\ Len(response.val.visualization.val.data) = ProfileRows
(***************************************************************************)
(* C21: when the log store raises while the ConversationTurn is appended   *)
(* (on session creation or on commit), nothing is appended and the request *)
(* goes on with the analysis it has when the append succeeds: the failure  *)
(* is not the exception process_query catches, and the success response    *)
(* has no error field and carries that same analysis.                      *)
(***************************************************************************)
\* the analysis understand_query returns for this completion when the append succeeds
AnalysisWhenStored ==
    understand_query(copy = "platform", model, user_query.val, session_id,
                     Ok(log_used.val.completion), "ok", <<>>, start_time).analysis

C21_AppendFailureIsSwallowed ==
    (~IsNone(log_used) /\ log_used.val.store # "ok")
    => /\ conversation_history = <<>>
       /\ query_analysis = Some(AnalysisWhenStored)
       /\ pc # "understand"
       /\ ~IsNone(raised) => raised.val.at = "generate_response"
       /\ pc = "returned"
          => /\ "error" \notin DOMAIN response.val
             /\ response.val.query_analysis = AnalysisWhenStored
             /\ response.val.session_id = session_id

\* a parsed analysis whose append failed on commit, answered with the success response
C21_Witness ==
    /\ pc = "returned"
    /\ ~IsNone(log_used)
    /\ log_used.val.store = "commit"
    /\ nlu_trace["understand"] = "parsed"
    /\ Get(response.val.query_analysis, "intent", "") = "greeting"
    /\ conversation_history = <<>>
(***************************************************************************)
(* C22 (as claimed): the phrase passed to semantic search is the           *)
(* space-join of geographic_region (if present), the parameters and        *)
(* data_type (if present), replaced by "oceanographic data" whenever the   *)
(* joined string is empty; the limit is 5; the region filter, the          *)
(* lower-cased region with underscores for spaces, is passed exactly when  *)
(* geographic_region is non-empty.                                         *)
(***************************************************************************)
\* the terms of the analysis, in the order the search phrase lists them
SearchTermsOf(a) ==
    LET e == Get(a, "entities", [x \in {} |-> JNull])
    IN (IF "geographic_region" \in DOMAIN e THEN <<e.geographic_region>> ELSE <<>>)
       \o (IF "parameters" \in DOMAIN e THEN e.parameters ELSE <<>>)
       \o (IF "data_type" \in DOMAIN e THEN <<e.data_type>> ELSE <<>>)

ScoredAbove(results) == {i \in DOMAIN results : results[i].similarity > 30}

\* the k-th smallest member of a set of positions
Kth(positions, k) == CHOOSE i \in positions : Cardinality({j \in positions : j <= i}) = k

C23_ContextIsResultsAboveThreshold ==
    (/\ ~IsNone(search_call)
     /\ ~IsNone(search_used)
     /\ search_used.val.ok
     /\ \A i \in DOMAIN search_used.val.val : "similarity" \in DOMAIN search_used.val.val[i])
    => LET results == search_used.val.val
           kept == ScoredAbove(results)
       IN /\ Len(context) = Cardinality(kept)
          /\ Len(context) <= 5
          /\ \A k \in DOMAIN context : context[k] = results[Kth(kept, k)].content
          /\ \A k \in DOMAIN context :
                 k > 1 => results[Kth(kept, k - 1)].similarity >= results[Kth(kept, k)].similarity

\* five results came back, two at exactly 0.3 and one below: only the two above are kept
C23_Witness ==
    /\ pc = "returned"
    /\ ~IsNone(search_call)
    /\ search_used.val.ok
    /\ Len(search_used.val.val) = 5
    /\ \E i \in DOMAIN search_used.val.val :
           Get(search_used.val.val[i], "similarity", 0) = 30
    /\ context = <<"Argo floats profile the upper 2000 m", "Indian Ocean summary">>(***************************************************************************)
(* C24: when two process_query calls for different session ids interleave  *)
(* at their await points, each response carries the session id of its own  *)
(* call, the analysis of its own call (with its own original_query where   *)
(* understand_query attaches one), rows and a visualization taken from its *)
(* own SQL execution only; every ConversationTurn appended is keyed by the *)
(* session id and the query of the call that wrote it and holds that       *)
(* call's analysis, and no turn is overwritten.                            *)
(***************************************************************************)
\* the frame of coroutine t, running or suspended
TaskFrame(t) == IF t = current THEN Frame ELSE suspended[t]

\* the rows the call's own execution produced
OwnRows(f) ==
    IF IsNone(f.store_used) THEN None
    ELSE _execute_sql_safely(f.sql_response.val, f.store_used.val).results

C24_InterleavedRequestsAreIsolated ==
    /\ \A t \in TaskIds :
         LET f == TaskFrame(t) IN
         /\ (~IsNone(f.query_analysis) /\ copy = "platform")
            => f.query_analysis.val.original_query = TaskQuery[t]
         /\ f.sql_results = (IF f.pc \in {"idle", "understand", "context", "generate_sql",
                                          "execute_sql"}
                             THEN None ELSE OwnRows(f))
         /\ ~IsNone(f.response)
            => /\ f.response.val.session_id = TaskSession[t]
               /\ "error" \notin DOMAIN f.response.val
                  => /\ f.response.val.query_analysis = f.query_analysis.val
                     /\ f.response.val.data_results =
                            (IF RowsPresent(OwnRows(f))
                             THEN Some(Take(OwnRows(f).val, 10)) ELSE None)
                     /\ ~IsNone(f.response.val.visualization)
                        => f.response.val.visualization.val.data = OwnRows(f).val
    /\ \A i \in DOMAIN conversation_history :
         \E t \in TaskIds :
            /\ conversation_history[i].session_id = TaskSession[t]
            /\ conversation_history[i].user_query = TaskQuery[t]
            /\ ~IsNone(TaskFrame(t).query_analysis)
            /\ conversation_history[i].system_response
                   = JsonDumps(TaskFrame(t).query_analysis.val)
    /\ \A i, j \in DOMAIN conversation_history :
         i # j => conversation_history[i].session_id # conversation_history[j].session_id

\* the call for s1 started first, the call for s2 logged its turn first, and both
\* returned their own rows
C24_Witness ==
    /\ DOMAIN suspended # {}
    /\ TaskFrame(1).pc = "returned"
    /\ TaskFrame(2).pc = "returned"
    /\ TaskFrame(1).start_time < TaskFrame(2).start_time
    /\ Len(conversation_history) = 2
    /\ conversation_history[1].session_id = "s2"
    /\ TaskFrame(1).response.val.total_data_rows = 1
    /\ ~IsNone(TaskFrame(1).response.val.visualization)
    /\ ~IsNone(TaskFrame(2).response.val.data_results)
    /\ TaskFrame(1).response.val.data_results # TaskFrame(2).response.val.data_results
(***************************************************************************)
(* C25: whether the context retrieval runs before, between or after the    *)
(* SQL generation and execution, the success response is the same function *)
(* of the analysis, the search results, the generated SQL and the store's  *)
(* answer: context_sources counts the strings the retrieval returns for    *)
(* the analysis, and sql_metadata, data_results, total_data_rows and       *)
(* visualization are those of the execution of the generated SQL.          *)
(***************************************************************************)
C25_ContextAndSqlCommute ==
    pc = "returned"
    => LET a == query_analysis.val
           ran == ~IsNone(store_used)
           r == _execute_sql_safely(sql_response.val, store_used.val)
           rows == IF ran THEN r.results ELSE None
           out == response.val
       IN /\ ~IsNone(search_used)
          /\ out.context_sources = Len(_retrieve_context(a, search_used.val).context)
          /\ ran = (Get(a, "intent", "") \in {"data_query", "visualization"})
          /\ out.sql_metadata = (IF ran THEN Some(r.metadata) ELSE None)
          /\ out.data_results = (IF RowsPresent(rows) THEN Some(Take(rows.val, 10)) ELSE None)
          /\ out.total_data_rows = (IF RowsPresent(rows) THEN Len(rows.val) ELSE 0)
          /\ out.visualization =
                 (IF Truthy(a, "requires_visualization") /\ RowsPresent(rows)
                  THEN _create_visualization_spec(a, rows) ELSE None)

\* the retrieval ran after the execution had returned its rows
C25_Witness ==
    /\ pc = "returned"
    /\ "context" \in DOMAIN nlu_trace
    /\ nlu_trace["context"] = "after_sql"
    /\ response.val.context_sources = 2
    /\ response.val.total_data_rows = ProfileRows
    /\ ~IsNone(response.val.visualization)
(***************************************************************************)
(* C26: every process_query run that got past query understanding invokes  *)
(* the context retrieval exactly once, whatever the intent: it has not run *)
(* before the step of line 63, it has run at every later position, no      *)
(* later step of the request runs it again or touches its result, and the  *)
(* context handed to generate_response is the list that retrieval          *)
(* returned.                                                               *)
(***************************************************************************)
\* the positions of process_query after line 63
AfterRetrieval ==
    {"generate_sql", "execute_sql", "generate_response", "visualize", "compile", "returned"}

C26_RetrievedOnceBeforeResponse ==
    /\ [](/\ pc \in {"idle", "understand", "context"} => IsNone(search_used)
          /\ pc \in AfterRetrieval => ~IsNone(search_used)
          /\ (~IsNone(raised) /\ raised.val.at # "log") => ~IsNone(search_used)
          /\ ~IsNone(response_call)
             => /\ ~IsNone(search_used)
                /\ response_call.val.context
                       = _retrieve_context(query_analysis.val, search_used.val).context
                /\ response_call.val.context = context)
    /\ [][/\ pc = "context" => (~IsNone(search_used') /\ pc' # "context")
          /\ ~IsNone(search_used) => UNCHANGED <<search_used, search_call, context>>]_vars

\* a greeting: no SQL ran, the retrieval did, and its two strings reached generate_response
C26_Witness ==
    /\ pc = "returned"
    /\ Get(query_analysis.val, "intent", "") = "greeting"
    /\ IsNone(store_used)
    /\ ~IsNone(search_used)
    /\ ~IsNone(response_call)
    /\ Len(response_call.val.context) = 2
    /\ response.val.context_sources = 2
(***************************************************************************)
(* C27: in a profile spec depth_column is the first column whose name      *)
(* contains depth or pressure, and parameter_columns are the first (at     *)
(* most 3) columns that are numeric in the first row and are not the depth *)
(* column; in a timeseries spec time_column is the first column whose name *)
(* contains date or time, and value_columns are the first (at most 2)      *)
(* numeric columns; in a map spec color_column is present exactly when     *)
(* some numeric column has a name containing neither lat nor lon, and is   *)
(* the first such column.  Names are compared in lower case.               *)
(***************************************************************************)
\* the positions of the first row whose lower-cased name contains one of `words`
Containing(row, words) ==
    {j \in DOMAIN row : \E w \in words : StrContains(StrLower(row[j].k), w)}

\* the positions of the first row that hold a number
NumericIn(row) == {j \in DOMAIN row : IsNum(row[j].v)}

\* `list` names the first (at most n) positions of `positions`, in order
FirstFew(row, list, positions, n) ==
    /\ Len(list) = (IF Cardinality(positions) < n THEN Cardinality(positions) ELSE n)
    /\ \A k \in DOMAIN list : list[k] = row[Kth(positions, k)].k

C27_RoleColumnsAreFirstMatches ==
    (~IsNone(z_result) /\ ~IsNone(z_result.val))
    => LET row == z_rows.val[1]
           out == z_result.val.val
       IN /\ out.type = "profile"
             => /\ ~IsNone(out.depth_column)
                /\ FirstFew(row, <<out.depth_column.val>>,
                            Containing(row, {"depth", "pressure"}), 1)
                /\ Len(out.parameter_columns) <= 3
                /\ FirstFew(row, out.parameter_columns,
                            {j \in NumericIn(row) : row[j].k # out.depth_column.val}, 3)
          /\ out.type = "timeseries"
             => /\ ~IsNone(out.time_column)
                /\ FirstFew(row, <<out.time_column.val>>,
                            Containing(row, {"date", "time"}), 1)
                /\ Len(out.value_columns) <= 2
                /\ FirstFew(row, out.value_columns, NumericIn(row), 2)
          /\ out.type = "map"
             => LET free == NumericIn(row) \ Containing(row, {"lat", "lon"})
                IN /\ ("color_column" \in DOMAIN out) = (free # {})
                   /\ "color_column" \in DOMAIN out
                      => FirstFew(row, <<out.color_column>>, free, 1)

\* a profile whose depth column is not the column named pressure, with a text column skipped
C27_Witness ==
    /\ ~IsNone(z_result)
    /\ ~IsNone(z_result.val)
    /\ z_result.val.val.type = "profile"
    /\ z_result.val.val.columns = <<"sea_depth", "cast", "pressure", "temperature">>
    /\ z_result.val.val.depth_column = Some("sea_depth")
    /\ z_result.val.val.parameter_columns = <<"pressure", "temperature">>
(***************************************************************************)
(* C28 (as claimed): in every map spec lat_column and lon_column are both  *)
(* non-null, name two different columns of the result set, and lat_column  *)
(* is one of the latitude columns that set has_coordinates (latitude or    *)
(* lat), not a column whose name merely contains "lat".                    *)
(***************************************************************************)
C28_MapHasLatitudeAndLongitude ==
    (~IsNone(z_result) /\ ~IsNone(z_result.val) /\ z_result.val.val.type = "map")
    => LET out == z_result.val.val
       IN /\ ~IsNone(out.lat_column)
          /\ ~IsNone(out.lon_column)
          /\ out.lat_column.val # out.lon_column.val
          /\ out.lat_column.val \in Range(out.columns)
          /\ out.lon_column.val \in Range(out.columns)
          /\ out.lat_column.val \in {"latitude", "lat"}
(***************************************************************************)
(* C29: get_conversation_history(session, limit) returns only turns of     *)
(* that session, min(limit, number of its turns) of them: the most recent  *)
(* ones, oldest first by created_at; when the store raises it returns the  *)
(* empty list.                                                             *)
(***************************************************************************)
\* the rows of the table that belong to the session
TurnsOf(sid) == {i \in DOMAIN conversation_history : conversation_history[i].session_id = sid}

C29_HistoryIsLastTurnsOldestFirst ==
    ~IsNone(history_out)
    => LET h == history_out.val
           own == TurnsOf(h.session_id)
           n == Cardinality(own)
           kept == IF h.limit < n THEN h.limit ELSE n
           \* the k-th oldest of the turns returned
           turn(k) == conversation_history[
                          CHOOSE i \in own :
                              Cardinality({j \in own :
                                  conversation_history[j].created_at
                                      > conversation_history[i].created_at}) = kept - k]
       IN /\ ~h.reads => h.history = <<>>
          /\ h.reads
             => /\ Len(h.history) = kept
                /\ Len(h.history) <= h.limit
                /\ \A k \in DOMAIN h.history :
                       /\ h.history[k].user_query = turn(k).user_query
                       /\ h.history[k].system_response = turn(k).system_response
                       /\ h.history[k].timestamp = isoformat(turn(k).created_at)
                /\ \A k \in DOMAIN h.history :
                       k > 1 => turn(k - 1).created_at < turn(k).created_at

\* two turns in the session and a later one in the other session, one asked for:
\* the later of the session's two
C29_Witness ==
    /\ ~IsNone(history_out)
    /\ history_out.val.reads
    /\ history_out.val.limit = 1
    /\ Len(conversation_history) = 3
    /\ TurnsOf(history_out.val.session_id) = {1, 2}
    /\ Len(history_out.val.history) = 1
    /\ history_out.val.history[1].timestamp = isoformat(conversation_history[2].created_at)
    /\ conversation_history[1].created_at < conversation_history[2].created_at
(***************************************************************************)
(* C30 (as claimed): for a non-empty profile list in which every profile   *)
(* has a timestamp, monthly_averages has exactly one entry per distinct    *)
(* (year, month) of the profiles, in ascending (year, month) order, and    *)
(* the entries' counts sum to the number of profiles; get_timeline_data    *)
(* returns the first 20 profiles at most, metadata.data_points is the      *)
(* number of profiles and metadata.monthly_points the number of entries.   *)
(***************************************************************************)
\* the (year, month) pairs of a list of entries or of timestamps
YearMonths(list) == {<<list[i].year, list[i].month>> : i \in DOMAIN list}

C30_OneEntryPerMonth ==
    (/\ ~IsNone(t_result)
     /\ Len(t_profiles) > 0
     /\ \A i \in DOMAIN t_profiles : ~t_profiles[i].timestamp.nat)
    => LET out == t_result.val
           monthly == out.monthly_averages
           n == Len(t_profiles)
       IN /\ YearMonths(monthly)
                 = YearMonths([i \in DOMAIN t_profiles |-> t_profiles[i].timestamp])
          /\ Len(monthly) = Cardinality(YearMonths(monthly))
          /\ \A k \in DOMAIN monthly :
                 k > 1 => \/ monthly[k - 1].year < monthly[k].year
                          \/ /\ monthly[k - 1].year = monthly[k].year
                             /\ monthly[k - 1].month < monthly[k].month
          /\ SumInts([k \in DOMAIN monthly |-> monthly[k].count]) = n
          /\ out.profiles = SubSeq(t_profiles, 1, IF n < 20 THEN n ELSE 20)
          /\ out.metadata.data_points = n
          /\ out.metadata.monthly_points = Len(monthly)
====
